---- MODULE Spec2Model ----
(***************************************************************************)
(* Learner progress and unlock state machine of the learner portal.        *)
(*                                                                         *)
(* Two pages keep the same kind of state (modules, lessons, quizzes and    *)
(* the course-level LearnerProgress) and react to the same events:         *)
(*   "learnova" - the R2-only course dashboard (src/unnamed/part_001),     *)
(*   "slug"     - the company dashboard (src/src/app/[slug]/page.tsx).     *)
(* The variable page says which of the two is running.                     *)
(*                                                                         *)
(* Numbers.  A lesson's progress is a JavaScript number that the video     *)
(* player computes as (current / duration) * 100, so it need not be an     *)
(* integer.  It is held here exactly, in units of 1/Den percent: the value *)
(* v stands for v / Den percent.  Every other percentage of the pages is   *)
(* produced by Math.round and is held as a plain integer.                  *)
(***************************************************************************)
EXTENDS Integers, Sequences, FiniteSets, TLC

\* ---------------------------------------------------------------- bounds
NumModules == 2
MaxLessons == 2
VideoDuration == 3
QuestionsPerQuiz == 2
MaxEvents == 5
MaxReloads == 1
MaxSessions == 2
MaxResets == 1
MaxSaveCalls == 2
MaxAnswerLen == 3
MaxApiQuestions == 2
MaxApiAnswers == 2
NumRequests == 2
NumApiLessons == 2

\* ------------------------------------------------------------- constants
DefaultPassingScore == 70
UnlockThreshold == 70
CompleteThreshold == 90

Den == VideoDuration
\* An absent value; a present snapshot or verdict is the one-element sequence.
None == <<>>

VARIABLES
  page,           \* which page is running: "learnova" or "slug"
  content,        \* data.data.modules: the modules the content source serves
  modules,        \* useState<Module[]>
  progress,       \* useState<LearnerProgress>
  playing,        \* isVideoOpen && currentLesson: the lesson <<module, lesson>>
                  \* of the open player, or None while the player is closed
  hasCompleted,   \* the player's own useState(false)
  currentQuiz,    \* the module whose quiz is open in the quiz modal, or 0
  storage,        \* localStorage[storageKey]: the saved snapshot or None
  events,         \* number of learner events applied so far (bounds the run)
  loadedFrom,     \* the lesson counts of the snapshot the last loadCourse
                  \* read (its shape), or None when it found none
  reloads,        \* number of loadCourse runs so far (bounds the run)
  question,       \* grading: the correct option list of a question
  submitted,      \* grading: the submitted option list
  graded,         \* grading: the verdicts, or None before grading
  quizRow,        \* quiz API: the quiz row with its questions
  reqBody,        \* quiz API: the request body
  enrollment,     \* quiz API: the owner of the enrollment row, or None
  quizAttempts,   \* quiz API: rows of quiz_attempts for (enrollment, quiz)
  response,       \* quiz API: the response, or None before the request
  requests,       \* quiz API: the submissions in flight, each with its position
                  \* in the handler and what it has read so far
  lessonRows,     \* progress API: the lesson_progress row of every lesson, or None
  enrollmentData, \* progress API: the progress columns of the enrollment row
  visit,          \* learnova: the course code of the URL and the allowedCourses
                  \* of the signed-in user, or None outside a visit
  qubitsModules,  \* useState<QubitsModule[]>
  qubitsDashboard, \* useState<QubitsDashboard>, or None outside practice
  practiceQuestions, \* useState<QuizQuestion[]>: the questions of the session
  isPracticeOpen, \* useState(false)
  xpEarned,       \* the amount of the last addXP call of a practice session
  authUser,       \* useAuth().user: None until the identity provider answers
  mountUser,      \* the user of the render whose effects started loadCourse
  anonymousStorage, \* localStorage under the key of user 'anonymous'
  saves,          \* progress sync: for every piece of progress the hook can
                  \* save, where its save stands and how often it was called
  practiceLog     \* what the learner really did in practice so far: sessions,
                  \* correct and attempted questions, seconds, and the
                  \* arguments of the last completion; None outside practice

practiceVars == <<qubitsModules, qubitsDashboard, practiceQuestions,
                  isPracticeOpen, xpEarned, practiceLog>>

pageVars == <<page, content, modules, progress, playing, hasCompleted,
              currentQuiz, storage, events, loadedFrom, reloads>>

keyVars == <<authUser, mountUser, anonymousStorage>>

extraVars == <<visit, practiceVars, saves, keyVars>>

gradeVars == <<question, submitted, graded, quizRow, reqBody, enrollment,
               quizAttempts, response, requests, lessonRows, enrollmentData,
               extraVars>>

vars == <<pageVars, gradeVars>>

\* --------------------------------------------------------------- helpers
Max(a, b) == IF a >= b THEN a ELSE b

\* Math.round(p / q) for p >= 0, q > 0: halves round up.
Round(p, q) == (2 * p + q) \div (2 * q)

RECURSIVE SumSeq(_)
SumSeq(s) == IF s = <<>> THEN 0 ELSE Head(s) + SumSeq(Tail(s))

LessonProgresses(lessons) == [k \in DOMAIN lessons |-> lessons[k].progress]

CountCompleted(lessons) ==
  Cardinality({k \in DOMAIN lessons : lessons[k].status = "completed"})

\* module.lessons.some((l) => l.id === lessonId); a lesson id is <<m, k>>.
LessonInModule(mods, m, lessonId) ==
  lessonId[1] = m /\ lessonId[2] \in DOMAIN mods[m].lessons

TotalLessonCount(mods) ==
  SumSeq([m \in DOMAIN mods |-> Len(mods[m].lessons)])

TotalLessonProgress(mods) ==
  SumSeq([m \in DOMAIN mods |-> SumSeq(LessonProgresses(mods[m].lessons))])

TotalCompleted(mods) ==
  SumSeq([m \in DOMAIN mods |-> CountCompleted(mods[m].lessons)])

\* -------------------------------------------------- content and load
\* The modules as the content source serves them, before the page touches
\* them: no progress, nothing played.
ApiModules(c) ==
  [m \in 1..Len(c) |->
     [status |-> "not_started", progress |-> 0,
      lessons |-> [k \in 1..c[m] |->
                     [status |-> "not_started", progress |-> 0, lastPosition |-> 0]],
      quiz |-> [status |-> "not_started", bestScore |-> 0]]]

ApiLearnerProgress(fresh) ==
  [overallProgress |-> 0, lessonsCompleted |-> 0,
   totalLessons |-> SumSeq([m \in DOMAIN fresh |-> Len(fresh[m].lessons)]),
   quizzesPassed |-> 0, questionsAttempted |-> 0, questionsCorrect |-> 0,
   averageScore |-> 0]

\* A fresh branch that keeps the statuses the content source served.
FreshModulesAsServed(fresh) == [idx \in DOMAIN fresh |-> fresh[idx]]

\* loadCourse, the branch taken without a usable snapshot.
FreshModules(fresh) ==
  [idx \in DOMAIN fresh |->
     [fresh[idx] EXCEPT
        !.status = IF idx = 1 THEN "in_progress" ELSE "locked",
        !.lessons = [k \in DOMAIN fresh[idx].lessons |->
                       [fresh[idx].lessons[k] EXCEPT
                          !.status = IF idx = 1 THEN "not_started" ELSE "locked"]],
        !.quiz = [fresh[idx].quiz EXCEPT !.status = "locked"]]]

\* loadCourse, the branch that merges a saved snapshot of the same module
\* count onto the fresh modules.  a || b yields b when a is missing or 0.
MergeModules(fresh, saved) ==
  [idx \in DOMAIN fresh |->
     LET freshMod == fresh[idx]
         savedMod == saved[idx]
         has(k) == k \in DOMAIN savedMod.lessons
     IN [status |-> savedMod.status,
         progress |-> savedMod.progress,
         lessons |-> [k \in DOMAIN freshMod.lessons |->
            [status |-> IF has(k) THEN savedMod.lessons[k].status
                        ELSE freshMod.lessons[k].status,
             progress |-> IF has(k) /\ savedMod.lessons[k].progress # 0
                          THEN savedMod.lessons[k].progress
                          ELSE freshMod.lessons[k].progress,
             lastPosition |-> IF has(k) /\ savedMod.lessons[k].lastPosition # 0
                              THEN savedMod.lessons[k].lastPosition
                              ELSE freshMod.lessons[k].lastPosition]],
         quiz |-> [status |-> savedMod.quiz.status,
                   bestScore |-> IF savedMod.quiz.bestScore # 0
                                 THEN savedMod.quiz.bestScore
                                 ELSE freshMod.quiz.bestScore]]]

\* The lesson count of every module of a snapshot.
SnapshotShape(snap) ==
  IF snap = None THEN None
  ELSE <<[m \in DOMAIN snap[1].modules |-> Len(snap[1].modules[m].lessons)]>>

\* if (savedProgress?.modules && savedProgress.modules.length === data.data.modules.length)
SnapshotUsable(fresh, snap) ==
  snap # None /\ Len(snap[1].modules) = Len(fresh)

loadCourseModules(fresh, snap) ==
  IF SnapshotUsable(fresh, snap) THEN MergeModules(fresh, snap[1].modules)
  ELSE FreshModules(fresh)

\* A reconciliation that keeps the saved progress of any snapshot.
loadCourseProgressOfAnySnapshot(freshProgress, fresh, snap) ==
  IF snap # None THEN snap[1].progress ELSE freshProgress

loadCourseProgress(freshProgress, fresh, snap) ==
  IF SnapshotUsable(fresh, snap) THEN snap[1].progress ELSE freshProgress

\* The company dashboard starts from the initial module data of the mock
\* data set: a course nobody has touched.
initialModulesData(fresh) == FreshModules(fresh)

initialLearnerProgress(fresh) == ApiLearnerProgress(fresh)

\* ------------------------------------- learnova: handleLessonComplete
\* The first map of the setModules updater, for one module.
CompleteLessonInModule(module, m, lessonId) ==
  IF ~(lessonId[1] = m /\ lessonId[2] \in DOMAIN module.lessons) THEN module
  ELSE
    LET lessonIdx == lessonId[2]
        updatedLessons ==
          [idx \in DOMAIN module.lessons |->
             IF idx = lessonIdx
             THEN [module.lessons[idx] EXCEPT !.status = "completed",
                                              !.progress = 100 * Den]
             ELSE IF idx = lessonIdx + 1 /\ module.lessons[idx].status = "locked"
             THEN [module.lessons[idx] EXCEPT !.status = "not_started"]
             ELSE module.lessons[idx]]
        completedLessons == CountCompleted(updatedLessons)
        moduleProgress == Round(completedLessons * 100, Len(updatedLessons))
        allLessonsCompleted == completedLessons = Len(updatedLessons)
        newQuiz == IF allLessonsCompleted /\ module.quiz.status = "locked"
                   THEN [module.quiz EXCEPT !.status = "not_started"]
                   ELSE module.quiz
    IN [module EXCEPT !.lessons = updatedLessons,
                      !.progress = moduleProgress,
                      !.status = IF allLessonsCompleted THEN "completed"
                                 ELSE "in_progress",
                      !.quiz = newQuiz]

\* The unlocking of every lesson of a module that becomes available.
UnlockAllLessons(module) ==
  [module EXCEPT !.status = "not_started",
                 !.lessons = [k \in DOMAIN module.lessons |->
                                [module.lessons[k] EXCEPT !.status = "not_started"]]]

\* The same map with the threshold at 50 instead of 70.
UnlockNextModuleAtHalf(updatedModules, lessonId) ==
  [index \in DOMAIN updatedModules |->
     IF /\ index > 1
        /\ LessonInModule(updatedModules, index - 1, lessonId)
        /\ updatedModules[index - 1].progress >= 50
        /\ updatedModules[index].status = "locked"
     THEN UnlockAllLessons(updatedModules[index])
     ELSE updatedModules[index]]

\* The second map of the setModules updater: the 70% rule.
UnlockNextModule(updatedModules, lessonId) ==
  [index \in DOMAIN updatedModules |->
     IF /\ index > 1
        /\ LessonInModule(updatedModules, index - 1, lessonId)
        /\ updatedModules[index - 1].progress >= UnlockThreshold
        /\ updatedModules[index].status = "locked"
     THEN UnlockAllLessons(updatedModules[index])
     ELSE updatedModules[index]]

handleLessonCompleteModules(prevModules, lessonId) ==
  UnlockNextModule(
    [m \in DOMAIN prevModules |-> CompleteLessonInModule(prevModules[m], m, lessonId)],
    lessonId)

handleLessonCompleteProgress(prev) ==
  LET completedLessons == prev.lessonsCompleted + 1
  IN [prev EXCEPT !.overallProgress = Round(completedLessons * 100, prev.totalLessons),
                  !.lessonsCompleted = completedLessons]

\* -------------------------------------- learnova: handleVideoProgress
\* An updater that puts every lesson it touches back in progress.
UpdateLessonRestarting(lesson, progressPercent, position) ==
  [lesson EXCEPT !.progress = Max(lesson.progress, progressPercent),
                 !.lastPosition = Max(lesson.lastPosition, position),
                 !.status = "in_progress"]

UpdateLesson(lesson, progressPercent, position) ==
  [lesson EXCEPT !.progress = Max(lesson.progress, progressPercent),
                 !.lastPosition = Max(lesson.lastPosition, position),
                 !.status = IF lesson.status = "not_started" THEN "in_progress"
                            ELSE lesson.status]

handleVideoProgressModules(prevModules, lessonId, progressPercent, position) ==
  [m \in DOMAIN prevModules |->
     LET module == prevModules[m]
         lessonInModule == LessonInModule(prevModules, m, lessonId)
         updatedLessons ==
           [k \in DOMAIN module.lessons |->
              IF <<m, k>> = lessonId
              THEN UpdateLesson(module.lessons[k], progressPercent, position)
              ELSE module.lessons[k]]
         moduleProgress ==
           IF lessonInModule
           THEN Round(SumSeq(LessonProgresses(updatedLessons)),
                      Den * Len(updatedLessons))
           ELSE module.progress
     IN [module EXCEPT !.lessons = updatedLessons, !.progress = moduleProgress]]

handleVideoProgressProgress(prev, updatedModules) ==
  LET totalLessons == TotalLessonCount(updatedModules)
      totalProgress == TotalLessonProgress(updatedModules)
      overallProgress == IF totalLessons > 0
                         THEN Round(totalProgress, Den * totalLessons)
                         ELSE 0
  IN [prev EXCEPT !.overallProgress = overallProgress]


\* ----------------------------------------- slug: handleLessonComplete
CompleteLessonInModuleSlug(module, m, lessonId) ==
  IF ~(lessonId[1] = m /\ lessonId[2] \in DOMAIN module.lessons) THEN module
  ELSE
    LET lessonIndex == lessonId[2]
        updatedLessons ==
          [idx \in DOMAIN module.lessons |->
             IF idx = lessonIndex
             THEN [module.lessons[idx] EXCEPT !.status = "completed",
                                              !.progress = 100 * Den]
             ELSE IF idx = lessonIndex + 1 /\ module.lessons[idx].status = "locked"
             THEN [module.lessons[idx] EXCEPT !.status = "not_started"]
             ELSE module.lessons[idx]]
        completedLessons == CountCompleted(updatedLessons)
        moduleProgress == Round(completedLessons * 100, Len(updatedLessons))
        allLessonsCompleted == completedLessons = Len(updatedLessons)
        newQuiz == IF allLessonsCompleted /\ module.quiz.status = "locked"
                   THEN [module.quiz EXCEPT !.status = "not_started"]
                   ELSE module.quiz
    IN [module EXCEPT !.lessons = updatedLessons,
                      !.progress = moduleProgress,
                      !.status = IF allLessonsCompleted THEN "completed"
                                 ELSE IF moduleProgress > 0 THEN "in_progress"
                                 ELSE module.status,
                      !.quiz = newQuiz]

handleLessonCompleteModulesSlug(prevModules, lessonId) ==
  [m \in DOMAIN prevModules |-> CompleteLessonInModuleSlug(prevModules[m], m, lessonId)]

\* setProgress reads the modules of the render the handler was created in.
handleLessonCompleteProgressSlug(prev, closureModules) ==
  LET totalLessons == TotalLessonCount(closureModules)
      completedLessons == TotalCompleted(closureModules) + 1
  IN [prev EXCEPT !.overallProgress = Round(completedLessons * 100, totalLessons),
                  !.lessonsCompleted = completedLessons]

\* ------------------------------------------ slug: handleVideoProgress
UpdateLessonSlug(lesson, progressPercent, position) ==
  [lesson EXCEPT !.progress = Max(lesson.progress, progressPercent),
                 !.lastPosition = position,
                 !.status = IF lesson.status = "not_started" THEN "in_progress"
                            ELSE lesson.status]

handleVideoProgressModulesSlug(prevModules, lessonId, progressPercent, position) ==
  [m \in DOMAIN prevModules |->
     [prevModules[m] EXCEPT !.lessons =
        [k \in DOMAIN prevModules[m].lessons |->
           IF <<m, k>> = lessonId
           THEN UpdateLessonSlug(prevModules[m].lessons[k], progressPercent, position)
           ELSE prevModules[m].lessons[k]]]]

\* ------------------------------------------------------ quiz content
Options == {"a", "b"}

\* question.correctOptionIds of the questions of every module quiz
CorrectOptionIds(q) == IF q % 2 = 1 THEN <<"a">> ELSE <<"a", "b">>

QuizQuestions == 1..QuestionsPerQuiz

SeqToSet(s) == {s[i] : i \in DOMAIN s}

\* userAnswer.length === question.correctOptionIds.length &&
\* userAnswer.every((id) => question.correctOptionIds.includes(id))
IsCorrectPage(userAnswer, correctOptionIds) ==
  /\ Len(userAnswer) = Len(correctOptionIds)
  /\ \A i \in DOMAIN userAnswer : userAnswer[i] \in SeqToSet(correctOptionIds)

\* selectedSet.size === correctSet.size && [...selectedSet].every((x) => correctSet.has(x))
IsCorrectApi(selectedAnswers, correctAnswers) ==
  LET selectedSet == SeqToSet(selectedAnswers)
      correctSet == SeqToSet(correctAnswers)
  IN /\ Cardinality(selectedSet) = Cardinality(correctSet)
     /\ \A x \in selectedSet : x \in correctSet

\* handleQuizSubmit's correctCount
CorrectCount(answers) ==
  Cardinality({q \in QuizQuestions : IsCorrectPage(answers[q], CorrectOptionIds(q))})

\* The score the quiz modal hands to onSubmit.
QuizModalScore(answers) ==
  IF QuestionsPerQuiz = 0 THEN 0
  ELSE Round(100 * Cardinality({q \in QuizQuestions :
                 SeqToSet(answers[q]) = SeqToSet(CorrectOptionIds(q))}),
             QuestionsPerQuiz)

\* The answer lists the quiz modal can hand over for one question.
ModalAnswers == {<<>>, <<"a">>, <<"b">>, <<"a", "b">>}

\* currentQuiz?.passingScore || 70
PassingScore == DefaultPassingScore

Passed(score) == score >= PassingScore

\* --------------------------------------- learnova: handleQuizSubmit
\* A bestScore that records the latest score.
BestScoreLatest(quiz, score) == score

BestScore(quiz, score) == Max(quiz.bestScore, score)

handleQuizSubmitModules(prev, quizModule, score) ==
  [idx \in DOMAIN prev |->
     IF idx = quizModule
     THEN [prev[idx] EXCEPT !.quiz =
             [status |-> IF Passed(score) THEN "passed" ELSE "failed",
              bestScore |-> BestScore(prev[idx].quiz, score)]]
     ELSE IF idx - 1 = quizModule /\ Passed(score) /\ prev[idx].status = "locked"
     THEN UnlockAllLessons(prev[idx])
     ELSE prev[idx]]

handleQuizSubmitProgress(prev, score, answers) ==
  LET totalQuestions == QuestionsPerQuiz
      correctCount == CorrectCount(answers)
      newQuestionsAttempted == prev.questionsAttempted + totalQuestions
      newQuestionsCorrect == prev.questionsCorrect + correctCount
  IN [prev EXCEPT
        !.quizzesPassed = IF Passed(score) THEN @ + 1 ELSE @,
        !.questionsAttempted = newQuestionsAttempted,
        !.questionsCorrect = newQuestionsCorrect,
        !.averageScore = IF newQuestionsAttempted > 0
                         THEN Round(newQuestionsCorrect * 100, newQuestionsAttempted)
                         ELSE 0]

\* ------------------------------------------- slug: handleQuizSubmit
UnlockFirstLesson(module) ==
  [module EXCEPT !.status = "not_started",
                 !.lessons = [i \in DOMAIN module.lessons |->
                                IF i = 1
                                THEN [module.lessons[i] EXCEPT !.status = "not_started"]
                                ELSE module.lessons[i]]]

handleQuizSubmitModulesSlug(prev, quizModule, score) ==
  [idx \in DOMAIN prev |->
     IF idx = quizModule
     THEN [prev[idx] EXCEPT
             !.quiz = [status |-> IF Passed(score) THEN "passed" ELSE "failed",
                       bestScore |-> BestScore(prev[idx].quiz, score)],
             !.status = IF Passed(score) /\ prev[idx].progress = 100
                        THEN "completed" ELSE @]
     ELSE IF idx - 1 = quizModule /\ Passed(score) /\ prev[idx].status = "locked"
     THEN UnlockFirstLesson(prev[idx])
     ELSE prev[idx]]

handleQuizSubmitProgressSlug(prev, score) ==
  [prev EXCEPT !.quizzesPassed = IF Passed(score) THEN @ + 1 ELSE @]


\* =========================================================== the pages
Pages == {"learnova", "slug"}

\* The courses the content source can serve: a lesson count per module.
Courses == [1..NumModules -> 1..MaxLessons]

\* useEffect(() => { ... localStorage.setItem(storageKey, ...) }, [modules, ...]):
\* runs after every render that changed the state; the company dashboard
\* has no such effect.
SaveEffect(pg, mods, prog, old) ==
  IF pg = "learnova" /\ Len(mods) > 0
  THEN <<[modules |-> mods, progress |-> prog]>>
  ELSE old

\* The page reads and writes the snapshot of one key.
KeyIdle == authUser = None /\ mountUser = None /\ anonymousStorage = None

\* No practice session is going on.
PracticeIdle ==
  /\ qubitsModules = <<>> /\ qubitsDashboard = None /\ practiceQuestions = <<>>
  /\ isPracticeOpen = FALSE /\ xpEarned = 0 /\ practiceLog = None

\* No visit of the access check is going on.
ExtraIdle == visit = None /\ PracticeIdle /\ saves = <<>> /\ KeyIdle

\* No grading is going on while a page runs.
GradeIdle ==
  /\ question = <<>> /\ submitted = <<>> /\ graded = None
  /\ quizRow = None /\ reqBody = None /\ enrollment = None
  /\ quizAttempts = 0 /\ response = None /\ requests = <<>>
  /\ lessonRows = <<>> /\ enrollmentData = None /\ ExtraIdle

Init ==
  /\ page \in Pages
  /\ content \in {ApiModules(c) : c \in Courses}
  /\ modules = IF page = "learnova"
               THEN loadCourseModules(content, None)
               ELSE initialModulesData(content)
  /\ progress = IF page = "learnova"
                THEN loadCourseProgress(ApiLearnerProgress(content), content, None)
                ELSE initialLearnerProgress(content)
  /\ playing = None
  /\ hasCompleted = FALSE
  /\ currentQuiz = 0
  /\ storage = SaveEffect(page, modules, progress, None)
  /\ events = 0
  /\ loadedFrom = None
  /\ reloads = 0
  /\ GradeIdle

\* The two pages' handlers behind one name each.
LessonCompleteModules(pg, mods, lessonId) ==
  IF pg = "learnova" THEN handleLessonCompleteModules(mods, lessonId)
  ELSE handleLessonCompleteModulesSlug(mods, lessonId)

LessonCompleteProgress(pg, prev, closureModules) ==
  IF pg = "learnova" THEN handleLessonCompleteProgress(prev)
  ELSE handleLessonCompleteProgressSlug(prev, closureModules)

VideoProgressModules(pg, mods, lessonId, progressPercent, position) ==
  IF pg = "learnova"
  THEN handleVideoProgressModules(mods, lessonId, progressPercent, position)
  ELSE handleVideoProgressModulesSlug(mods, lessonId, progressPercent, position)

VideoProgressProgress(pg, prev, updatedModules) ==
  IF pg = "learnova" THEN handleVideoProgressProgress(prev, updatedModules)
  ELSE prev

\* The counters of LearnerProgress grow without limit; a run is cut off
\* after MaxEvents learner events.
MayAct == events < MaxEvents

\* The learnova page renders the player only while a video is open, so every
\* opening mounts a new player and closing discards its state; the company
\* dashboard keeps one player mounted for the life of the page.
RemountsPlayer(pg) == pg = "learnova"

\* handlePlayLesson: a locked lesson is refused.
PlayLessonAllowed(lesson) == lesson.status # "locked"

PlayLesson(m, k) ==
  /\ playing = None /\ currentQuiz = 0
  /\ m \in DOMAIN modules /\ k \in DOMAIN modules[m].lessons
  /\ PlayLessonAllowed(modules[m].lessons[k])
  /\ playing' = <<m, k>>
  /\ hasCompleted' = IF RemountsPlayer(page) THEN FALSE ELSE hasCompleted
  /\ UNCHANGED <<page, content, modules, progress, currentQuiz, storage, events,
                 loadedFrom, reloads, gradeVars>>

\* onClose={() => setIsVideoOpen(false)}
CloseVideo ==
  /\ playing # None
  /\ playing' = None
  /\ hasCompleted' = IF RemountsPlayer(page) THEN FALSE ELSE hasCompleted
  /\ UNCHANGED <<page, content, modules, progress, currentQuiz, storage, events,
                 loadedFrom, reloads, gradeVars>>

\* The player's progress interval: report the position, and complete the
\* lesson at 90% unless this player has completed already.  The two
\* setProgress updaters of a completing tick are applied in either order.
PlayerTick(current, completeFirst) ==
  /\ playing # None /\ VideoDuration > 0 /\ MayAct
  /\ LET progressPercent == current * 100      \* (current / duration) * 100
         completes == progressPercent >= CompleteThreshold * Den /\ ~hasCompleted
         afterProgress == VideoProgressModules(page, modules, playing,
                                               progressPercent, current)
         afterComplete == LessonCompleteModules(page, afterProgress, playing)
     IN /\ completes \/ ~completeFirst
        /\ modules' = IF completes THEN afterComplete ELSE afterProgress
        /\ hasCompleted' = (hasCompleted \/ completes)
        /\ progress' =
             IF ~completes
             THEN VideoProgressProgress(page, progress, afterProgress)
             ELSE IF completeFirst
             THEN VideoProgressProgress(page,
                    LessonCompleteProgress(page, progress, modules), afterProgress)
             ELSE LessonCompleteProgress(page,
                    VideoProgressProgress(page, progress, afterProgress), modules)
  /\ storage' = SaveEffect(page, modules', progress', storage)
  /\ events' = events + 1
  /\ UNCHANGED <<page, content, playing, currentQuiz, loadedFrom, reloads, gradeVars>>

\* onStateChange ENDED: complete the lesson unless this player has already.
PlayerEnded ==
  /\ playing # None /\ ~hasCompleted /\ MayAct
  /\ hasCompleted' = TRUE
  /\ modules' = LessonCompleteModules(page, modules, playing)
  /\ progress' = LessonCompleteProgress(page, progress, modules)
  /\ storage' = SaveEffect(page, modules', progress', storage)
  /\ events' = events + 1
  /\ UNCHANGED <<page, content, playing, currentQuiz, loadedFrom, reloads, gradeVars>>

\* A handleStartQuiz that refuses no quiz.
StartQuizAllowedAlways(quiz) == TRUE

\* handleStartQuiz: a locked quiz is refused.
StartQuizAllowed(quiz) == quiz.status # "locked"

StartQuiz(m) ==
  /\ playing = None /\ currentQuiz = 0
  /\ m \in DOMAIN modules
  /\ StartQuizAllowed(modules[m].quiz)
  /\ currentQuiz' = m
  /\ UNCHANGED <<page, content, modules, progress, playing, hasCompleted,
                 storage, events, loadedFrom, reloads, gradeVars>>

\* handleCloseQuiz
CloseQuiz ==
  /\ currentQuiz # 0
  /\ currentQuiz' = 0
  /\ UNCHANGED <<page, content, modules, progress, playing, hasCompleted,
                 storage, events, loadedFrom, reloads, gradeVars>>

\* handleQuizSubmit(score, answers), called by the quiz modal.
QuizSubmit(answers) ==
  /\ currentQuiz # 0
  /\ MayAct
  /\ LET score == QuizModalScore(answers)
     IN /\ modules' = IF page = "learnova"
                      THEN handleQuizSubmitModules(modules, currentQuiz, score)
                      ELSE handleQuizSubmitModulesSlug(modules, currentQuiz, score)
        /\ progress' = IF page = "learnova"
                       THEN handleQuizSubmitProgress(progress, score, answers)
                       ELSE handleQuizSubmitProgressSlug(progress, score)
  /\ events' = events + 1
  /\ storage' = SaveEffect(page, modules', progress', storage)
  /\ UNCHANGED <<page, content, playing, hasCompleted, currentQuiz, loadedFrom,
                 reloads, gradeVars>>

Next ==
  \/ \E m \in 1..NumModules, k \in 1..MaxLessons : PlayLesson(m, k)
  \/ CloseVideo
  \/ \E current \in 0..VideoDuration, completeFirst \in BOOLEAN :
       PlayerTick(current, completeFirst)
  \/ PlayerEnded
  \/ \E m \in 1..NumModules : StartQuiz(m)
  \/ CloseQuiz
  \/ \E answers \in [QuizQuestions -> ModalAnswers] : QuizSubmit(answers)

Spec == Init /\ [][Next]_vars

Statuses == {"locked", "not_started", "in_progress", "completed"}

QuizStatuses == {"locked", "not_started", "passed", "failed"}

\* ------------------------------------------------------------ reload
\* The courses a later visit can find: modules added or removed, lessons
\* added or removed.
RECURSIVE SeqsUpTo(_, _)
SeqsUpTo(S, n) ==
  IF n = 0 THEN {<<>>}
  ELSE LET shorter == SeqsUpTo(S, n - 1)
       IN shorter \cup {Append(s, x) : s \in {t \in shorter : Len(t) = n - 1}, x \in S}

ReloadCourses == SeqsUpTo(1..MaxLessons, NumModules) \ {<<>>}

\* loadCourse: the learnova page is opened, fetches the course and reconciles
\* it with the snapshot in localStorage; the save effect then stores the
\* state it produced.
\* The Qubits modules and dashboard, which loadCourse copies whole from the
\* snapshot or the content source, are state of the practice specification
\* and stay as they are here.
LoadCourse(fresh) ==
  /\ page = "learnova" /\ reloads < MaxReloads /\ MayAct
  /\ reloads' = reloads + 1
  /\ content' = fresh
  /\ loadedFrom' = SnapshotShape(storage)
  /\ modules' = loadCourseModules(fresh, storage)
  /\ progress' = loadCourseProgress(ApiLearnerProgress(fresh), fresh, storage)
  /\ playing' = None
  /\ hasCompleted' = FALSE
  /\ currentQuiz' = 0
  /\ storage' = SaveEffect(page, modules', progress', storage)
  /\ events' = events + 1
  /\ UNCHANGED <<page, gradeVars>>

\* What the content source serves for them.
ReloadContents == {ApiModules(c) : c \in ReloadCourses}

NextReload ==
  \/ Next
  \/ \E fresh \in ReloadContents : LoadCourse(fresh)

SpecReload == Init /\ [][NextReload]_vars

TypeOK ==
  /\ page \in Pages
  /\ \A m \in DOMAIN modules :
       /\ modules[m].status \in Statuses
       /\ modules[m].quiz.status \in QuizStatuses
       /\ \A k \in DOMAIN modules[m].lessons : modules[m].lessons[k].status \in Statuses
  /\ events \in 0..MaxEvents

\* ------------------------------------------------- first load alone
\* Course shapes of any size, the empty course and empty modules included.
AnyCourses == SeqsUpTo(0..MaxLessons, NumModules)

\* Module lists as a content source may serve them: whatever status it
\* puts on the modules and lessons (s) and on the quizzes (q).
RawModules(c, s, q) ==
  [m \in 1..Len(c) |->
     [status |-> s, progress |-> 0,
      lessons |-> [k \in 1..c[m] |->
                     [status |-> s, progress |-> 0, lastPosition |-> 0]],
      quiz |-> [status |-> q, bestScore |-> 0]]]

RawContents ==
  {RawModules(c, s, q) : c \in AnyCourses, s \in Statuses, q \in QuizStatuses}

\* The snapshot a learner who finished a course of shape c has left behind.
FinishedModules(c) ==
  [m \in 1..Len(c) |->
     [status |-> "completed", progress |-> 100,
      lessons |-> [k \in 1..c[m] |->
                     [status |-> "completed", progress |-> 100 * Den,
                      lastPosition |-> VideoDuration]],
      quiz |-> [status |-> "passed", bestScore |-> 100]]]

FinishedProgress(c) ==
  [overallProgress |-> 100, lessonsCompleted |-> SumSeq(c), totalLessons |-> SumSeq(c),
   quizzesPassed |-> Len(c), questionsAttempted |-> QuestionsPerQuiz * Len(c),
   questionsCorrect |-> QuestionsPerQuiz * Len(c), averageScore |-> 100]

SavedSnapshots ==
  {None} \cup {<<[modules |-> FinishedModules(c), progress |-> FinishedProgress(c)]>> :
                 c \in ReloadCourses}

\* The learnova page before loadCourse has run: useState([]), useState(null).
InitLoad ==
  /\ page = "learnova"
  /\ content = <<>>
  /\ modules = <<>>
  /\ progress = None
  /\ playing = None
  /\ hasCompleted = FALSE
  /\ currentQuiz = 0
  /\ storage \in SavedSnapshots
  /\ events = 0
  /\ loadedFrom = None
  /\ reloads = 0
  /\ GradeIdle

\* The effect runs once per visit: this is the first visit alone.
NextLoad == \E fresh \in RawContents : reloads = 0 /\ LoadCourse(fresh)

SpecLoad == InitLoad /\ [][NextLoad]_vars

\* ------------------------------------------------------------ grading
\* Option lists of up to MaxAnswerLen options, repetitions included.
OptionLists == SeqsUpTo(Options, MaxAnswerLen)

PagesIdle ==
  /\ page = "learnova" /\ content = <<>> /\ modules = <<>> /\ progress = None
  /\ playing = None /\ hasCompleted = FALSE /\ currentQuiz = 0
  /\ storage = None /\ events = 0 /\ loadedFrom = None /\ reloads = 0

\* The correct options of a question: a list without repetitions.
CorrectOptionLists ==
  {s \in OptionLists : \A i, j \in DOMAIN s : s[i] = s[j] => i = j}

InitGrade ==
  /\ PagesIdle
  /\ question \in CorrectOptionLists
  /\ submitted \in OptionLists
  /\ graded = None
  /\ quizRow = None /\ reqBody = None /\ enrollment = None
  /\ quizAttempts = 0 /\ response = None /\ requests = <<>>
  /\ lessonRows = <<>> /\ enrollmentData = None /\ ExtraIdle

\* One question graded by the learnova page and by the quiz API.
Grade ==
  /\ graded = None
  /\ graded' = <<[page |-> IsCorrectPage(submitted, question),
                  api |-> IsCorrectApi(submitted, question)]>>
  /\ UNCHANGED <<pageVars, question, submitted, quizRow, reqBody, enrollment,
                 quizAttempts, response, requests, lessonRows, enrollmentData, extraVars>>

NextGrade == Grade

SpecGrade == InitGrade /\ [][NextGrade]_vars

\* ------------------------------------------------ POST /api/quiz/submit
Users == {"u1", "u2"}

\* The correct_answers a question row can hold.
CorrectAnswerLists == {<<"a">>, <<"a", "b">>}

\* The selectedAnswers of a submitted answer.
SelectedAnswerLists == {<<>>, <<"a">>, <<"a", "b">>}

\* Quiz rows: up to MaxApiQuestions questions of one point each, a passing
\* score, and max_attempts (0: not configured).
QuizRows ==
  {<<[questions |-> [i \in DOMAIN cs |-> [correct_answers |-> cs[i], points |-> 1]],
      passing_score |-> p, max_attempts |-> a]>> :
     cs \in SeqsUpTo(CorrectAnswerLists, MaxApiQuestions), p \in {0, DefaultPassingScore},
     a \in {0, 1}}

\* Submitted answers name a question of the quiz or an unknown question.
SubmittedAnswers ==
  [questionId : 1..(MaxApiQuestions + 1), selectedAnswers : SelectedAnswerLists]

RequestBodies ==
  {<<[user |-> "u1", answers |-> as]>> : as \in SeqsUpTo(SubmittedAnswers, MaxApiAnswers)}

InitQuizApi ==
  /\ PagesIdle
  /\ question = <<>> /\ submitted = <<>> /\ graded = None
  /\ quizRow \in QuizRows \cup {None}
  /\ reqBody \in RequestBodies
  /\ enrollment \in {<<u>> : u \in Users} \cup {None}
  /\ quizAttempts \in 0..1
  /\ response = None
  /\ requests = <<>>
  /\ lessonRows = <<>> /\ enrollmentData = None /\ ExtraIdle

\* The grading loop over body.answers: an answer to an unknown question is
\* skipped, every other one adds its question's points to totalPoints.
RECURSIVE GradeAnswers(_, _)
GradeAnswers(questions, answers) ==
  IF answers = <<>> THEN [totalPoints |-> 0, earnedPoints |-> 0, correct |-> 0]
  ELSE LET answer == Head(answers)
           rest == GradeAnswers(questions, Tail(answers))
       IN IF answer.questionId \notin DOMAIN questions THEN rest
          ELSE LET q == questions[answer.questionId]
                   isCorrect == IsCorrectApi(answer.selectedAnswers, q.correct_answers)
               IN [totalPoints |-> rest.totalPoints + q.points,
                   earnedPoints |-> rest.earnedPoints + (IF isCorrect THEN q.points ELSE 0),
                   correct |-> rest.correct + (IF isCorrect THEN 1 ELSE 0)]

\* scorePercent = totalPoints > 0 ? (earnedPoints / totalPoints) * 100 : 0,
\* kept as the fraction num / den.
ScorePercent(g) ==
  IF g.totalPoints > 0 THEN [num |-> g.earnedPoints * 100, den |-> g.totalPoints]
  ELSE [num |-> 0, den |-> 1]

\* The response to a graded submission.
GradedResponse(row, answers, attemptNumber) ==
  LET g == GradeAnswers(row.questions, answers)
      scorePercent == ScorePercent(g)
  IN [status |-> 200,
      score |-> scorePercent,
      passed |-> scorePercent.num >= row.passing_score * scorePercent.den,
      totalQuestions |-> Len(row.questions),
      correctAnswers |-> g.correct,
      attemptNumber |-> attemptNumber]

ErrorResponse(status) ==
  [status |-> status, score |-> [num |-> 0, den |-> 1], passed |-> FALSE,
   totalQuestions |-> 0, correctAnswers |-> 0, attemptNumber |-> 0]

\* POST: ownership check, quiz lookup, attempt limit, grading, insert.
PostQuizSubmit ==
  /\ response = None
  /\ IF enrollment = None THEN
       /\ response' = <<ErrorResponse(404)>>
       /\ UNCHANGED quizAttempts
     ELSE IF enrollment[1] # reqBody[1].user THEN
       /\ response' = <<ErrorResponse(403)>>
       /\ UNCHANGED quizAttempts
     ELSE IF quizRow = None THEN
       /\ response' = <<ErrorResponse(404)>>
       /\ UNCHANGED quizAttempts
     ELSE IF quizRow[1].max_attempts # 0 /\ quizAttempts >= quizRow[1].max_attempts THEN
       /\ response' = <<ErrorResponse(400)>>
       /\ UNCHANGED quizAttempts
     ELSE
       \/ /\ response' = <<GradedResponse(quizRow[1], reqBody[1].answers, quizAttempts + 1)>>
          /\ quizAttempts' = quizAttempts + 1
       \/ /\ response' = <<ErrorResponse(500)>>   \* the insert failed
          /\ UNCHANGED quizAttempts
  /\ UNCHANGED <<pageVars, question, submitted, graded, quizRow, reqBody, enrollment,
                 requests, lessonRows, enrollmentData, extraVars>>

NextQuizApi == PostQuizSubmit

SpecQuizApi == InitQuizApi /\ [][NextQuizApi]_vars

\* ------------------------- POST /api/quiz/submit, requests in flight
\* The handler awaits every query, so requests for the same enrollment and
\* quiz interleave between their queries.  A request is at one of:
\*   "start"   - nothing read yet,
\*   "checked" - past the ownership check, the quiz lookup and the
\*               max-attempts check,
\*   "counted" - graded, previousAttempts read,
\*   "done"    - answered (status 200, 400, 403, 404 or 500).
Requests == 1..NumRequests

NewRequest == [pc |-> "start", attemptNumber |-> 0, status |-> 0]

\* The quiz rows with an attempt limit and without.
RaceQuizRows == {q \in QuizRows : Len(q[1].questions) = 1 /\ q[1].passing_score = DefaultPassingScore}

InitQuizRace ==
  /\ PagesIdle
  /\ question = <<>> /\ submitted = <<>> /\ graded = None
  /\ quizRow \in RaceQuizRows
  /\ reqBody \in RequestBodies
  /\ enrollment \in {<<u>> : u \in Users}
  /\ quizAttempts \in 0..1
  /\ response = None
  /\ requests = [r \in Requests |-> NewRequest]
  /\ lessonRows = <<>> /\ enrollmentData = None /\ ExtraIdle

Answered(r, status) == [requests EXCEPT ![r] = [@ EXCEPT !.pc = "done", !.status = status]]

\* Ownership check, quiz lookup and the max-attempts check with its count.
CheckAttempts(r) ==
  /\ requests[r].pc = "start"
  /\ requests' =
       IF enrollment[1] # reqBody[1].user THEN Answered(r, 403)
       ELSE IF quizRow[1].max_attempts # 0 /\ quizAttempts >= quizRow[1].max_attempts
       THEN Answered(r, 400)
       ELSE [requests EXCEPT ![r] = [@ EXCEPT !.pc = "checked"]]
  /\ UNCHANGED <<pageVars, question, submitted, graded, quizRow, reqBody, enrollment,
                 quizAttempts, response, lessonRows, enrollmentData, extraVars>>

\* Grading, then the second count: attemptNumber = previousAttempts + 1.
CountPrevious(r) ==
  /\ requests[r].pc = "checked"
  /\ requests' = [requests EXCEPT ![r] = [@ EXCEPT !.pc = "counted",
                                                   !.attemptNumber = quizAttempts + 1]]
  /\ UNCHANGED <<pageVars, question, submitted, graded, quizRow, reqBody, enrollment,
                 quizAttempts, response, lessonRows, enrollmentData, extraVars>>

\* The insert into quiz_attempts; a failed insert answers 500.
InsertAttempt(r) ==
  /\ requests[r].pc = "counted"
  /\ \/ /\ quizAttempts' = quizAttempts + 1
        /\ requests' = Answered(r, 200)
        /\ response' = <<GradedResponse(quizRow[1], reqBody[1].answers,
                                        requests[r].attemptNumber)>>
     \/ /\ requests' = Answered(r, 500)
        /\ UNCHANGED <<quizAttempts, response>>
  /\ UNCHANGED <<pageVars, question, submitted, graded, quizRow, reqBody, enrollment,
                 lessonRows, enrollmentData, extraVars>>

NextQuizRace ==
  \E r \in Requests : CheckAttempts(r) \/ CountPrevious(r) \/ InsertAttempt(r)

SpecQuizRace == InitQuizRace /\ [][NextQuizRace]_vars

\* ------------------------------------- POST /api/progress/lesson, scorm
\* An optional number that the body leaves out is -1, an optional status "".
Undefined == -1

ApiLessons == 1..NumApiLessons

\* Bodies of POST /api/progress/lesson.
LessonBodies ==
  {<<b>> : b \in [user : {"u1"}, lessonId : ApiLessons,
                  status : {"", "in_progress", "completed"},
                  progressPercent : {Undefined, 50},
                  lastPosition : {Undefined, 1}]}

\* Bodies of POST /api/progress/scorm; progressMeasure in hundredths.
ScormBodies ==
  {<<b>> : b \in [user : {"u1"}, sessionTime : {Undefined, 5},
                  score : {Undefined, 80},
                  completionStatus : {"", "incomplete", "completed"},
                  progressMeasure : {Undefined, 0, 50, 100}]}

IsQuizBody == "answers" \in DOMAIN reqBody[1]

IsLessonBody == "lessonId" \in DOMAIN reqBody[1]

IsScormBody == "sessionTime" \in DOMAIN reqBody[1]

\* The lesson_progress rows before the request: none, or a completed lesson.
InitialLessonRows ==
  [ApiLessons -> {None, <<[status |-> "completed", progress_percent |-> 100,
                           last_position |-> 0]>>}]

InitialEnrollmentData ==
  {<<[status |-> "not_started", progress |-> 0, scorm_total_time |-> 0,
      scorm_score |-> Undefined, scorm_completion_status |-> "", started |-> st]>> :
     st \in BOOLEAN}

InitOwnership ==
  /\ PagesIdle
  /\ question = <<>> /\ submitted = <<>> /\ graded = None
  /\ quizRow \in RaceQuizRows \cup {None}
  /\ reqBody \in RequestBodies \cup LessonBodies \cup ScormBodies
  /\ enrollment \in {<<u>> : u \in Users} \cup {None}
  /\ quizAttempts \in 0..1
  /\ response = None
  /\ requests = <<>>
  /\ lessonRows \in InitialLessonRows
  /\ enrollmentData \in InitialEnrollmentData
  /\ ExtraIdle

\* An ownership check that lets every user through.
IsOwnerAlways(user) == TRUE

\* enrollment.user_id === user.id
IsOwner(user) == enrollment[1] = user

\* The answer to a progress request; its body is not modelled.
OkResponse == ErrorResponse(200)

\* upsert(progressData, { onConflict: 'user_id,lesson_id' }): the columns
\* the body gives are written, the others keep their value.
UpsertLessonRow(row, body) ==
  LET old == IF row = None
             THEN [status |-> "not_started", progress_percent |-> 0, last_position |-> 0]
             ELSE row[1]
  IN <<[status |-> IF body.status # "" THEN body.status ELSE old.status,
        progress_percent |-> IF body.progressPercent # Undefined
                             THEN body.progressPercent ELSE old.progress_percent,
        last_position |-> IF body.lastPosition # Undefined
                          THEN body.lastPosition ELSE old.last_position]>>

\* updateEnrollmentProgress: progress from the count of completed lessons.
CompletedLessons(rows) ==
  Cardinality({l \in ApiLessons : rows[l] # None /\ rows[l][1].status = "completed"})

\* updateEnrollmentProgress from the progress computation on: the update
\* written for a count of completed lessons.
EnrollmentProgressUpdate(data, completedLessons) ==
  LET newProgress == Round(completedLessons * 100, NumApiLessons)
      status == IF newProgress = 100 THEN "completed"
                ELSE IF newProgress = 0 THEN "not_started" ELSE "in_progress"
  IN IF NumApiLessons = 0 THEN data
     ELSE [data EXCEPT
             !.progress = newProgress,
             !.status = status,
             !.scorm_completion_status =
                IF status = "completed" THEN "completed"
                ELSE IF status = "in_progress" THEN "incomplete" ELSE @,
             !.started = IF status = "in_progress" THEN TRUE ELSE @]

updateEnrollmentProgress(data, rows) ==
  EnrollmentProgressUpdate(data, CompletedLessons(rows))

\* POST /api/progress/lesson: ownership check, upsert, enrollment update.
PostLessonProgress ==
  /\ response = None /\ IsLessonBody
  /\ IF enrollment = None THEN
       /\ response' = <<ErrorResponse(404)>>
       /\ UNCHANGED <<lessonRows, enrollmentData>>
     ELSE IF ~IsOwner(reqBody[1].user) THEN
       /\ response' = <<ErrorResponse(403)>>
       /\ UNCHANGED <<lessonRows, enrollmentData>>
     ELSE
       \/ /\ response' = <<ErrorResponse(500)>>      \* the upsert failed
          /\ UNCHANGED <<lessonRows, enrollmentData>>
       \/ /\ lessonRows' = [lessonRows EXCEPT ![reqBody[1].lessonId] =
                              UpsertLessonRow(@, reqBody[1])]
          /\ response' = <<OkResponse>>
          /\ \/ enrollmentData' = <<updateEnrollmentProgress(enrollmentData[1], lessonRows')>>
             \/ UNCHANGED enrollmentData             \* its error is not looked at
  /\ UNCHANGED <<pageVars, question, submitted, graded, quizRow, reqBody, enrollment,
                 quizAttempts, requests, extraVars>>

\* The updateData of the SCORM route applied to the enrollment row.
ScormUpdate(data, body) ==
  LET measured == body.progressMeasure # Undefined
      partly == measured /\ body.progressMeasure > 0 /\ body.progressMeasure < 100
  IN [data EXCEPT
        !.scorm_total_time = IF body.sessionTime # Undefined THEN @ + body.sessionTime ELSE @,
        !.scorm_score = IF body.score # Undefined THEN body.score ELSE @,
        !.scorm_completion_status =
           IF body.completionStatus # "" THEN body.completionStatus ELSE @,
        !.progress = IF measured THEN body.progressMeasure ELSE @,
        !.status = IF partly THEN "in_progress"
                   ELSE IF body.completionStatus = "completed" THEN "completed" ELSE @,
        !.started = IF partly THEN TRUE ELSE @]

\* POST /api/progress/scorm: ownership check, enrollment update.
PostScorm ==
  /\ response = None /\ IsScormBody
  /\ IF enrollment = None THEN
       /\ response' = <<ErrorResponse(404)>>
       /\ UNCHANGED enrollmentData
     ELSE IF ~IsOwner(reqBody[1].user) THEN
       /\ response' = <<ErrorResponse(403)>>
       /\ UNCHANGED enrollmentData
     ELSE
       \/ /\ response' = <<ErrorResponse(500)>>      \* the update failed
          /\ UNCHANGED enrollmentData
       \/ /\ enrollmentData' = <<ScormUpdate(enrollmentData[1], reqBody[1])>>
          /\ response' = <<OkResponse>>
  /\ UNCHANGED <<pageVars, question, submitted, graded, quizRow, reqBody, enrollment,
                 quizAttempts, requests, lessonRows, extraVars>>

NextOwnership ==
  \/ IsQuizBody /\ PostQuizSubmit
  \/ PostLessonProgress
  \/ PostScorm

SpecOwnership == InitOwnership /\ [][NextOwnership]_vars

\* ------------------------------------------- learnova: course access
CourseCodes == {"A", "B", "C"}

\* user.allowedCourses: absent (None) or a list of course codes.
AllowLists ==
  {None, <<<<>>>>, <<<<"A">>>>, <<<<"B">>>>, <<<<"C">>>>, <<<<"B", "A">>>>,
   <<<<"A", "C">>>>, <<<<"C", "B">>>>}

\* hasAccess: no allowedCourses, or the course code is in the list.
hasAccess(v) ==
  v.allowedCourses = None \/ v.courseCode \in SeqToSet(v.allowedCourses[1])

\* An authenticated learner opens /learnova/<courseCode>.
InitAccess ==
  /\ PagesIdle
  /\ question = <<>> /\ submitted = <<>> /\ graded = None
  /\ quizRow = None /\ reqBody = None /\ enrollment = None
  /\ quizAttempts = 0 /\ response = None /\ requests = <<>>
  /\ lessonRows = <<>> /\ enrollmentData = None
  /\ visit \in {<<[courseCode |-> c, allowedCourses |-> a]>> :
                  c \in CourseCodes, a \in AllowLists}
  /\ PracticeIdle /\ saves = <<>> /\ KeyIdle

\* The redirect effect: router.replace to the first allowed course.  The
\* page of the other course starts with state of its own.
Redirect ==
  /\ ~hasAccess(visit[1])
  /\ Len(visit[1].allowedCourses[1]) > 0
  /\ visit' = <<[visit[1] EXCEPT !.courseCode = visit[1].allowedCourses[1][1]]>>
  /\ content' = <<>> /\ modules' = <<>> /\ progress' = None
  /\ playing' = None /\ hasCompleted' = FALSE /\ currentQuiz' = 0
  /\ storage' = None /\ events' = 0 /\ loadedFrom' = None /\ reloads' = 0
  /\ UNCHANGED <<page, question, submitted, graded, quizRow, reqBody, enrollment,
                 quizAttempts, response, requests, lessonRows, enrollmentData,
                 practiceVars, saves, keyVars>>

\* The loadCourse effect depends on courseCode alone.
NextAccess ==
  \/ \E c \in ReloadCourses : reloads = 0 /\ LoadCourse(ApiModules(c))
  \/ Redirect

SpecAccess == InitAccess /\ [][NextAccess]_vars

\* ------------------------------------------------ practice (Qubits)
Digit == <<"0", "1", "2", "3", "4", "5", "6", "7", "8", "9">>

\* The id of question k of module m, as a string of characters: "qb<m>-<k>".
QuestionId(m, k) == <<"q", "b", Digit[m + 1], "-", Digit[k + 1]>>

\* String.prototype.startsWith
StartsWith(str, prefix) ==
  Len(prefix) <= Len(str) /\ SubSeq(str, 1, Len(prefix)) = prefix

\* The modules a learner can select for one test, in the order of the list.
ModuleSelections ==
  {sel \in SeqsUpTo(1..NumModules, NumModules) \ {<<>>} :
     \A i, j \in DOMAIN sel : i < j => sel[i] < sel[j]}

RECURSIVE Concat(_)
Concat(ss) == IF ss = <<>> THEN <<>> ELSE Head(ss) \o Concat(Tail(ss))

\* handleQubitsStartTest: module.quiz.questions.slice(0, count) of every
\* selected module, one after the other.
PracticeQuestionsOf(moduleIds, count) ==
  Concat([i \in DOMAIN moduleIds |->
            [k \in 1..count |->
               [id |-> QuestionId(moduleIds[i], k), questionNumber |-> k,
                module |-> moduleIds[i]]]])

\* The results a session over these questions can report.
ResultsFor(questions) ==
  {[i \in DOMAIN questions |->
      [questionId |-> questions[i].id, isCorrect |-> f[i]]] :
   f \in [DOMAIN questions -> BOOLEAN]}

CountWhere(seq, Test(_)) == Cardinality({i \in DOMAIN seq : Test(seq[i])})

\* score = round(100 * correctCount / totalQuestions)
PracticeScore(results) ==
  LET IsCorrect(r) == r.isCorrect
  IN IF results = <<>> THEN 0
     ELSE Round(100 * CountWhere(results, IsCorrect), Len(results))

\* A duration string: "<h>h <m>m", where either part can be missing.
TimeString(h, m) == [h |-> h, m |-> m]

\* What a duration string says, in seconds.
SecondsOf(str) ==
  (IF str.h = None THEN 0 ELSE str.h[1] * 3600)
  + (IF str.m = None THEN 0 ELSE str.m[1] * 60)

\* learnova: parseTimeSpent, /(\d+)h/ and /(\d+)m/ apart.
parseTimeSpent(timeStr) ==
  LET hours == IF timeStr.h # None THEN timeStr.h[1] ELSE 0
      minutes == IF timeStr.m # None THEN timeStr.m[1] ELSE 0
  IN hours * 3600 + minutes * 60

\* learnova: formatTimeSpent
formatTimeSpent(seconds) ==
  IF seconds < 60 THEN TimeString(None, <<0>>)
  ELSE LET hours == seconds \div 3600
           minutes == (seconds % 3600) \div 60
       IN IF hours > 0
          THEN IF minutes > 0 THEN TimeString(<<hours>>, <<minutes>>)
               ELSE TimeString(<<hours>>, None)
          ELSE TimeString(None, <<minutes>>)

\* slug: /(\d+)h\s*(\d+)?m?/ matches from an "h" part on only; minutes are
\* added rounded, and the string always carries the hours.
TimeSpentSlug(timeSpent, totalTime) ==
  LET matched == timeSpent.h # None
      prevHours == IF matched THEN timeSpent.h[1] ELSE 0
      prevMins == IF matched /\ timeSpent.m # None THEN timeSpent.m[1] ELSE 0
      prevTotalMins == prevHours * 60 + prevMins
      newTotalMins == prevTotalMins + Round(totalTime, 60)
      newHours == newTotalMins \div 60
      newMins == newTotalMins % 60
  IN IF newMins > 0 THEN TimeString(<<newHours>>, <<newMins>>)
     ELSE TimeString(<<newHours>>, None)

\* learnova: the setQubitsDashboard updater; the streak is not touched.
PracticeDashboard(prev, totalTime, results) ==
  LET IsCorrect(r) == r.isCorrect
      correctCount == CountWhere(results, IsCorrect)
      newTotalAttempted == prev.totalQuestionsAttempted + Len(results)
      prevCorrect == Round(prev.totalQuestionsAttempted * prev.overallAccuracy, 100)
      newCorrect == prevCorrect + correctCount
      newTotalSeconds == parseTimeSpent(prev.timeSpent) + totalTime
  IN [prev EXCEPT
        !.totalQuizzes = @ + 1,
        !.totalQuestionsAttempted = newTotalAttempted,
        !.overallAccuracy = IF newTotalAttempted > 0
                            THEN Round(newCorrect * 100, newTotalAttempted)
                            ELSE 0,
        !.timeSpent = formatTimeSpent(newTotalSeconds)]

\* slug: the setQubitsDashboard updater.
PracticeDashboardSlug(prev, score, totalTime, results) ==
  LET IsCorrect(r) == r.isCorrect
      totalQuestions == Len(results)
      correctCount == CountWhere(results, IsCorrect)
      passed == score >= 70
      newTotalAttempted == prev.totalQuestionsAttempted + totalQuestions
      prevCorrect == Round(prev.overallAccuracy * prev.totalQuestionsAttempted, 100)
      newTotalCorrect == prevCorrect + correctCount
  IN [prev EXCEPT
        !.totalQuizzes = @ + 1,
        !.totalQuestionsAttempted = newTotalAttempted,
        !.overallAccuracy = IF newTotalAttempted > 0
                            THEN Round(newTotalCorrect * 100, newTotalAttempted)
                            ELSE 0,
        !.timeSpent = TimeSpentSlug(prev.timeSpent, totalTime),
        !.streak = IF passed THEN @ + 1 ELSE 0]

\* learnova: the setQubitsModules updater; the questions of a module are
\* the practice questions numbered up to the module's totalQuestions.
PracticeModules(prev, questions, results) ==
  [n \in DOMAIN prev |->
     LET mod == prev[n]
         limit == IF mod.totalQuestions # 0 THEN mod.totalQuestions ELSE 10
         moduleQuestions ==
           {questions[i].id : i \in {j \in DOMAIN questions :
                                       questions[j].questionNumber <= limit}}
         InModCorrect(r) == r.questionId \in moduleQuestions /\ r.isCorrect
         InModIncorrect(r) == r.questionId \in moduleQuestions /\ ~r.isCorrect
         modCorrect == CountWhere(results, InModCorrect)
         modIncorrect == CountWhere(results, InModIncorrect)
         modAttempted == modCorrect + modIncorrect
     IN IF moduleQuestions # {}
        THEN [mod EXCEPT
                !.attemptedQuestions = @ + modAttempted,
                !.correctAnswers = @ + modCorrect,
                !.incorrectAnswers = @ + modIncorrect,
                !.unattempted =
                   Max(0, mod.totalQuestions - (mod.attemptedQuestions + modAttempted)),
                !.accuracy =
                   IF modAttempted > 0
                   THEN Round((mod.correctAnswers + modCorrect) * 100,
                              mod.attemptedQuestions + modAttempted)
                   ELSE @]
        ELSE mod]

\* slug: the setQubitsModules updater; the results of a module are those
\* whose question id starts with "qb<number>".
PracticeModulesSlug(prev, results) ==
  [n \in DOMAIN prev |->
     LET mod == prev[n]
         modulePrefix == <<"q", "b", Digit[n + 1]>>
         InMod(r) == StartsWith(r.questionId, modulePrefix)
         InModCorrect(r) == InMod(r) /\ r.isCorrect
         moduleQuestions == CountWhere(results, InMod)
         moduleCorrect == CountWhere(results, InModCorrect)
         newAttempted == mod.attemptedQuestions + moduleQuestions
         newCorrect == mod.correctAnswers + moduleCorrect
     IN IF moduleQuestions = 0 THEN mod
        ELSE [mod EXCEPT
                !.attemptedQuestions = newAttempted,
                !.correctAnswers = newCorrect,
                !.incorrectAnswers = @ + (moduleQuestions - moduleCorrect),
                !.unattempted = Max(0, mod.totalQuestions - newAttempted),
                !.accuracy = IF newAttempted > 0
                             THEN Round(newCorrect * 100, newAttempted) ELSE 0]]

\* learnova: the setProgress updater of handlePracticeComplete.
PracticeProgress(prev, results) ==
  LET IsCorrect(r) == r.isCorrect
      correctCount == CountWhere(results, IsCorrect)
      accuracy == IF Len(results) > 0
                  THEN Round(correctCount * 100, Len(results)) ELSE 0
  IN [prev EXCEPT
        !.quizzesPassed = @ + (IF accuracy >= 70 THEN 1 ELSE 0),
        !.questionsAttempted = @ + Len(results),
        !.questionsCorrect = @ + correctCount]

\* The question banks: how many questions each Qubits module has.
QubitsTotals == {[n \in 1..NumModules |-> QuestionsPerQuiz],
                 [n \in 1..NumModules |-> IF n = 1 THEN 1 ELSE QuestionsPerQuiz]}

\* The practice history a dashboard can come from: <<attempted, correct>>.
PracticeHistories == {<<0, 0>>, <<200, 1>>}

InitialTimeSpent ==
  {TimeString(<<0>>, <<0>>), TimeString(None, <<45>>), TimeString(<<1>>, <<30>>)}

InitialStreaks == {0, 2}

\* The elapsed seconds a session can report.
SessionTimes == {59, 90}

\* A page with its course loaded and a dashboard that is right about the
\* practice so far.
InitPractice ==
  /\ page \in Pages
  /\ content = ApiModules([m \in 1..NumModules |-> 1])
  /\ modules = IF page = "learnova"
               THEN loadCourseModules(content, None)
               ELSE initialModulesData(content)
  /\ progress = IF page = "learnova"
                THEN loadCourseProgress(ApiLearnerProgress(content), content, None)
                ELSE initialLearnerProgress(content)
  /\ playing = None /\ hasCompleted = FALSE /\ currentQuiz = 0
  /\ storage = SaveEffect(page, modules, progress, None)
  /\ events = 0 /\ loadedFrom = None /\ reloads = 0
  /\ question = <<>> /\ submitted = <<>> /\ graded = None
  /\ quizRow = None /\ reqBody = None /\ enrollment = None
  /\ quizAttempts = 0 /\ response = None /\ requests = <<>>
  /\ lessonRows = <<>> /\ enrollmentData = None /\ visit = None
  /\ saves = <<>> /\ KeyIdle
  /\ \E totals \in QubitsTotals :
       qubitsModules =
         [n \in 1..NumModules |->
            [totalQuestions |-> totals[n], attemptedQuestions |-> 0,
             correctAnswers |-> 0, incorrectAnswers |-> 0,
             unattempted |-> totals[n], accuracy |-> 0]]
  /\ \E hist \in PracticeHistories, ts \in InitialTimeSpent, st \in InitialStreaks :
       /\ qubitsDashboard =
            <<[totalQuizzes |-> 0, totalQuestionsAttempted |-> hist[1],
               overallAccuracy |-> IF hist[1] = 0 THEN 0
                                   ELSE Round(100 * hist[2], hist[1]),
               timeSpent |-> ts, streak |-> st]>>
       /\ practiceLog =
            <<[sessions |-> 0, resets |-> 0,
               attempted |-> hist[1], correct |-> hist[2],
               seconds |-> SecondsOf(ts), score |-> 0, results |-> <<>>]>>
  /\ practiceQuestions = <<>> /\ isPracticeOpen = FALSE /\ xpEarned = 0

\* handleQubitsStartTest
QubitsStartTest(moduleIds, count) ==
  /\ ~isPracticeOpen
  /\ practiceLog[1].sessions < MaxSessions
  /\ LET allQuestions == PracticeQuestionsOf(moduleIds, count)
     IN /\ allQuestions # <<>>
        /\ practiceQuestions' = allQuestions
  /\ isPracticeOpen' = TRUE
  /\ UNCHANGED <<pageVars, question, submitted, graded, quizRow, reqBody,
                 enrollment, quizAttempts, response, requests, lessonRows,
                 enrollmentData, visit, saves, keyVars, qubitsModules, qubitsDashboard,
                 xpEarned, practiceLog>>

\* handlePracticeComplete(score, totalTime, results)
PracticeComplete(totalTime, results) ==
  /\ isPracticeOpen
  /\ LET score == PracticeScore(results)
         IsCorrect(r) == r.isCorrect
     IN /\ xpEarned' = Round(score, 4)
        /\ qubitsModules' =
             IF page = "learnova"
             THEN PracticeModules(qubitsModules, practiceQuestions, results)
             ELSE PracticeModulesSlug(qubitsModules, results)
        /\ qubitsDashboard' =
             IF page = "learnova"
             THEN <<PracticeDashboard(qubitsDashboard[1], totalTime, results)>>
             ELSE <<PracticeDashboardSlug(qubitsDashboard[1], score, totalTime,
                                          results)>>
        /\ progress' = IF page = "learnova"
                       THEN PracticeProgress(progress, results) ELSE progress
        /\ practiceLog' =
             <<[sessions |-> practiceLog[1].sessions + 1,
                resets |-> practiceLog[1].resets,
                attempted |-> practiceLog[1].attempted + Len(results),
                correct |-> practiceLog[1].correct + CountWhere(results, IsCorrect),
                seconds |-> practiceLog[1].seconds + totalTime,
                score |-> score, results |-> results]>>
  /\ storage' = SaveEffect(page, modules, progress', storage)
  /\ isPracticeOpen' = FALSE
  /\ UNCHANGED <<page, content, modules, playing, hasCompleted, currentQuiz,
                 events, loadedFrom, reloads, question, submitted, graded,
                 quizRow, reqBody, enrollment, quizAttempts, response, requests,
                 lessonRows, enrollmentData, visit, saves, keyVars, practiceQuestions>>

NextPractice ==
  \/ \E moduleIds \in ModuleSelections, count \in 1..QuestionsPerQuiz :
       QubitsStartTest(moduleIds, count)
  \/ \E totalTime \in SessionTimes, results \in ResultsFor(practiceQuestions) :
       PracticeComplete(totalTime, results)

SpecPractice == InitPractice /\ [][NextPractice]_vars

\* ------------------------------------------------------ practice: reset
\* learnova: handleQubitsReset's setQubitsModules updater; incorrectAnswers
\* is not among the fields it writes.
ResetModules(prev) ==
  [n \in DOMAIN prev |->
     [prev[n] EXCEPT !.attemptedQuestions = 0, !.correctAnswers = 0,
                     !.accuracy = 0, !.unattempted = prev[n].totalQuestions]]

\* learnova: handleQubitsReset's setQubitsDashboard updater.
ResetDashboard(prev) ==
  [prev EXCEPT !.overallAccuracy = 0, !.totalQuestionsAttempted = 0,
               !.timeSpent = TimeString(<<0>>, <<0>>), !.streak = 0]

\* learnova: handleQubitsReset's setProgress updater.
ResetProgress(prev) == [prev EXCEPT !.quizzesPassed = 0, !.averageScore = 0]

\* slug: initialQubitsModulesData and initialQubitsDashboardData, the zeroed
\* data of these question banks.
initialQubitsModulesData(prev) ==
  [n \in DOMAIN prev |->
     [totalQuestions |-> prev[n].totalQuestions, attemptedQuestions |-> 0,
      correctAnswers |-> 0, incorrectAnswers |-> 0,
      unattempted |-> prev[n].totalQuestions, accuracy |-> 0]]

initialQubitsDashboardData ==
  [totalQuizzes |-> 0, totalQuestionsAttempted |-> 0, overallAccuracy |-> 0,
   timeSpent |-> TimeString(<<0>>, <<0>>), streak |-> 0]

\* handleQubitsReset, with the save effect that the state it sets triggers:
\* localStorage.removeItem runs in the handler, the effect after the render.
QubitsReset ==
  /\ ~isPracticeOpen
  /\ practiceLog[1].resets < MaxResets
  /\ qubitsModules' = IF page = "learnova" THEN ResetModules(qubitsModules)
                      ELSE initialQubitsModulesData(qubitsModules)
  /\ qubitsDashboard' = IF page = "learnova"
                        THEN <<ResetDashboard(qubitsDashboard[1])>>
                        ELSE <<initialQubitsDashboardData>>
  /\ progress' = IF page = "learnova" THEN ResetProgress(progress) ELSE progress
  /\ storage' = SaveEffect(page, modules, progress', None)
  /\ practiceLog' = <<[practiceLog[1] EXCEPT !.resets = @ + 1, !.attempted = 0,
                                             !.correct = 0, !.seconds = 0]>>
  /\ UNCHANGED <<page, content, modules, playing, hasCompleted, currentQuiz,
                 events, loadedFrom, reloads, question, submitted, graded,
                 quizRow, reqBody, enrollment, quizAttempts, response, requests,
                 lessonRows, enrollmentData, visit, saves, keyVars, practiceQuestions,
                 isPracticeOpen, xpEarned>>

NextReset == NextPractice \/ QubitsReset

SpecReset == InitPractice /\ [][NextReset]_vars

\* ---------------------------------------------------- progress sync
\* What useProgressSync saves: the video progress and the completion of a
\* lesson, and the attempt at a quiz.
SaveItems ==
  {<<kind, n>> : kind \in {"video", "complete"}, n \in 1..MaxLessons}
    \cup {<<"quiz", n>> : n \in 1..NumModules}

\* A signed-in learner with the database configured and nothing saved yet.
InitSync ==
  /\ PagesIdle
  /\ question = <<>> /\ submitted = <<>> /\ graded = None
  /\ quizRow = None /\ reqBody = None /\ enrollment = None
  /\ quizAttempts = 0 /\ response = None /\ requests = <<>>
  /\ lessonRows = <<>> /\ enrollmentData = None /\ visit = None
  /\ PracticeIdle /\ KeyIdle
  /\ saves = [d \in SaveItems |-> [status |-> "idle", calls |-> 0]]

\* The body of a save function up to its first await: the request is out.
StartSave(d) ==
  /\ saves[d].status # "inflight"
  /\ saves[d].calls < MaxSaveCalls
  /\ saves' = [saves EXCEPT ![d] = [status |-> "inflight", calls |-> @.calls + 1]]
  /\ UNCHANGED <<pageVars, question, submitted, graded, quizRow, reqBody,
                 enrollment, quizAttempts, response, requests, lessonRows,
                 enrollmentData, visit, practiceVars, keyVars>>

saveVideoProgress(lessonId) == StartSave(<<"video", lessonId>>)

markLessonComplete(lessonId) == StartSave(<<"complete", lessonId>>)

saveQuizAttempt(quizId) == StartSave(<<"quiz", quizId>>)

\* The awaited service call settles: it resolves, or it throws because the
\* store is unreachable and the catch block logs the error.
SaveSettles(d, reachable) ==
  /\ saves[d].status = "inflight"
  /\ saves' = [saves EXCEPT ![d].status = IF reachable THEN "saved" ELSE "failed"]
  /\ UNCHANGED <<pageVars, question, submitted, graded, quizRow, reqBody,
                 enrollment, quizAttempts, response, requests, lessonRows,
                 enrollmentData, visit, practiceVars, keyVars>>

NextSync ==
  \/ \E lessonId \in 1..MaxLessons : saveVideoProgress(lessonId)
  \/ \E lessonId \in 1..MaxLessons : markLessonComplete(lessonId)
  \/ \E quizId \in 1..NumModules : saveQuizAttempt(quizId)
  \/ \E d \in SaveItems, reachable \in BOOLEAN : SaveSettles(d, reachable)

\* Whatever the hook itself does happens in the end; the learner need not
\* act again.
SpecSync ==
  /\ InitSync /\ [][NextSync]_vars
  /\ WF_vars(\E d \in SaveItems, reachable \in BOOLEAN : SaveSettles(d, reachable))

\* ------------------------------- progress API: concurrent lesson updates
\* The bodies of the concurrent requests: a status for one lesson.
RaceLessonBodies ==
  {b[1] : b \in {c \in LessonBodies :
                   /\ c[1].status # "" /\ c[1].progressPercent = Undefined
                   /\ c[1].lastPosition = Undefined}}

\* Requests of the owner of the enrollment, all received; the enrollment row
\* agrees with the lesson rows.
InitLessonRace ==
  /\ PagesIdle
  /\ question = <<>> /\ submitted = <<>> /\ graded = None
  /\ quizRow = None /\ reqBody = None
  /\ enrollment = <<"u1">>
  /\ quizAttempts = 0 /\ response = None
  /\ requests \in [Requests -> {[pc |-> "start", body |-> b, completedLessons |-> 0,
                                 status |-> 0] : b \in RaceLessonBodies}]
  /\ lessonRows \in InitialLessonRows
  /\ \E data \in InitialEnrollmentData :
       enrollmentData = <<updateEnrollmentProgress(data[1], lessonRows)>>
  /\ ExtraIdle

\* POST up to the upsert: the row is written, or the upsert fails with 500.
UpsertLesson(r) ==
  /\ requests[r].pc = "start"
  /\ \/ /\ lessonRows' = [lessonRows EXCEPT ![requests[r].body.lessonId] =
                             UpsertLessonRow(@, requests[r].body)]
        /\ requests' = [requests EXCEPT ![r].pc = "upserted"]
     \/ /\ requests' = [requests EXCEPT ![r].pc = "done", ![r].status = 500]
        /\ UNCHANGED lessonRows
  /\ UNCHANGED <<pageVars, question, submitted, graded, quizRow, reqBody,
                 enrollment, quizAttempts, response, enrollmentData, extraVars>>

\* updateEnrollmentProgress: the awaited count of completed lessons.
CountCompletedLessons(r) ==
  /\ requests[r].pc = "upserted"
  /\ requests' = [requests EXCEPT ![r].pc = "counted",
                                  ![r].completedLessons = CompletedLessons(lessonRows)]
  /\ UNCHANGED <<pageVars, question, submitted, graded, quizRow, reqBody,
                 enrollment, quizAttempts, response, lessonRows, enrollmentData,
                 extraVars>>

\* updateEnrollmentProgress: the awaited update with the progress computed
\* from that count, and the response.
UpdateEnrollment(r) ==
  /\ requests[r].pc = "counted"
  /\ enrollmentData' =
       <<EnrollmentProgressUpdate(enrollmentData[1], requests[r].completedLessons)>>
  /\ requests' = [requests EXCEPT ![r].pc = "done", ![r].status = 200]
  /\ UNCHANGED <<pageVars, question, submitted, graded, quizRow, reqBody,
                 enrollment, quizAttempts, response, lessonRows, extraVars>>

NextLessonRace ==
  \E r \in Requests : UpsertLesson(r) \/ CountCompletedLessons(r) \/ UpdateEnrollment(r)

SpecLessonRace == InitLessonRace /\ [][NextLessonRace]_vars

\* --------------------------------- progress API: concurrent SCORM updates
\* scorm_total_time of the enrollment before the requests
ScormTimeBefore == 30

\* The bodies of the concurrent requests: a session time, a score, or both.
RaceScormBodies ==
  [user : {"u1"}, sessionTime : {Undefined, 5, 8}, score : {Undefined, 80},
   completionStatus : {""}, progressMeasure : {Undefined}]

\* Requests of the owner of the enrollment, all received and validated.
InitScormRace ==
  /\ PagesIdle
  /\ question = <<>> /\ submitted = <<>> /\ graded = None
  /\ quizRow = None /\ reqBody = None
  /\ enrollment = <<"u1">>
  /\ quizAttempts = 0 /\ response = None
  /\ requests \in [Requests -> {[pc |-> "start", body |-> b, scorm_total_time |-> 0,
                                 status |-> 0] : b \in RaceScormBodies}]
  /\ lessonRows = <<>>
  /\ \E data \in InitialEnrollmentData :
       enrollmentData = <<[data[1] EXCEPT !.scorm_total_time = ScormTimeBefore]>>
  /\ ExtraIdle

\* POST: the awaited select of id, user_id and scorm_total_time.
SelectEnrollment(r) ==
  /\ requests[r].pc = "start"
  /\ requests' = [requests EXCEPT
                    ![r].pc = "selected",
                    ![r].scorm_total_time = enrollmentData[1].scorm_total_time]
  /\ UNCHANGED <<pageVars, question, submitted, graded, quizRow, reqBody,
                 enrollment, quizAttempts, response, lessonRows, enrollmentData,
                 extraVars>>

\* The update data built from the selected row: scorm_total_time is written
\* only when the body has a sessionTime, as currentTime + sessionTime.
ScormRaceUpdate(data, selected, body) ==
  IF body.sessionTime # Undefined
  THEN ScormUpdate([data EXCEPT !.scorm_total_time = selected], body)
  ELSE ScormUpdate(data, body)

\* POST: the awaited update and the response, or the update fails with 500.
UpdateScorm(r) ==
  /\ requests[r].pc = "selected"
  /\ \/ /\ enrollmentData' =
             <<ScormRaceUpdate(enrollmentData[1], requests[r].scorm_total_time,
                               requests[r].body)>>
        /\ requests' = [requests EXCEPT ![r].pc = "done", ![r].status = 200]
     \/ /\ requests' = [requests EXCEPT ![r].pc = "done", ![r].status = 500]
        /\ UNCHANGED enrollmentData
  /\ UNCHANGED <<pageVars, question, submitted, graded, quizRow, reqBody,
                 enrollment, quizAttempts, response, lessonRows, extraVars>>

NextScormRace == \E r \in Requests : SelectEnrollment(r) \/ UpdateScorm(r)

SpecScormRace == InitScormRace /\ [][NextScormRace]_vars

\* ------------------------------------------- learnova: storage keys
\* storageKey is `learnova-progress-${user?.id || 'anonymous'}-${courseCode}`.
\* The learner has finished the course under their own key; the anonymous
\* key holds nothing or what somebody left there.  The page mounts before or
\* after the identity provider has answered.
InitKeys ==
  /\ page = "learnova" /\ content = <<>> /\ modules = <<>> /\ progress = None
  /\ playing = None /\ hasCompleted = FALSE /\ currentQuiz = 0
  /\ storage \in SavedSnapshots \ {None}
  /\ events = 0 /\ loadedFrom = None /\ reloads = 0
  /\ question = <<>> /\ submitted = <<>> /\ graded = None
  /\ quizRow = None /\ reqBody = None /\ enrollment = None
  /\ quizAttempts = 0 /\ response = None /\ requests = <<>>
  /\ lessonRows = <<>> /\ enrollmentData = None /\ visit = None
  /\ PracticeIdle /\ saves = <<>>
  /\ mountUser \in {None, <<"u1">>}
  /\ authUser = mountUser
  /\ anonymousStorage \in SavedSnapshots

\* The save effect writes under the key of the current render.
SaveUnderKey(user, mods, prog) ==
  IF user = None
  THEN /\ anonymousStorage' = SaveEffect(page, mods, prog, anonymousStorage)
       /\ UNCHANGED storage
  ELSE /\ storage' = SaveEffect(page, mods, prog, storage)
       /\ UNCHANGED anonymousStorage

\* loadCourse, started by the effect of the first render (dependencies
\* [courseCode]): it reads the key of that render, whoever the user is now.
LoadCourseAtMount(fresh) ==
  /\ reloads = 0
  /\ LET snap == IF mountUser = None THEN anonymousStorage ELSE storage
     IN /\ loadedFrom' = SnapshotShape(snap)
        /\ modules' = loadCourseModules(fresh, snap)
        /\ progress' = loadCourseProgress(ApiLearnerProgress(fresh), fresh, snap)
  /\ reloads' = 1
  /\ content' = fresh
  /\ SaveUnderKey(authUser, modules', progress')
  /\ UNCHANGED <<page, playing, hasCompleted, currentQuiz, events, question,
                 submitted, graded, quizRow, reqBody, enrollment, quizAttempts,
                 response, requests, lessonRows, enrollmentData, visit,
                 practiceVars, saves, authUser, mountUser>>

\* The identity provider answers: storageKey changes and the save effect,
\* which depends on it, runs with the state of the page.
ResolveUser ==
  /\ authUser = None
  /\ authUser' = <<"u1">>
  /\ SaveUnderKey(authUser', modules, progress)
  /\ UNCHANGED <<page, content, modules, progress, playing, hasCompleted,
                 currentQuiz, events, loadedFrom, reloads, question, submitted,
                 graded, quizRow, reqBody, enrollment, quizAttempts, response,
                 requests, lessonRows, enrollmentData, visit, practiceVars,
                 saves, mountUser>>

\* The content source serves the course the learner has finished.
NextKeys ==
  \/ LoadCourseAtMount(ApiModules(SnapshotShape(storage)[1]))
  \/ ResolveUser

SpecKeys == InitKeys /\ [][NextKeys]_vars

\* --------------------------------------- courses with an empty module
\* Courses in which some module has no lesson.
CoursesWithEmptyModule ==
  {c \in [1..NumModules -> 0..MaxLessons] : \E m \in 1..NumModules : c[m] = 0}

InitEmptyModule ==
  /\ page \in Pages
  /\ content \in {ApiModules(c) : c \in CoursesWithEmptyModule}
  /\ modules = IF page = "learnova"
               THEN loadCourseModules(content, None)
               ELSE initialModulesData(content)
  /\ progress = IF page = "learnova"
                THEN loadCourseProgress(ApiLearnerProgress(content), content, None)
                ELSE initialLearnerProgress(content)
  /\ playing = None /\ hasCompleted = FALSE /\ currentQuiz = 0
  /\ storage = SaveEffect(page, modules, progress, None)
  /\ events = 0 /\ loadedFrom = None /\ reloads = 0
  /\ GradeIdle

SpecEmptyModule == InitEmptyModule /\ [][Next]_vars

\* --------------------------------------------------------- middleware
\* A pathname is the list of its segments: "/api/auth" is <<"api", "auth">>.
PUBLIC_PATHS ==
  {<<"login">>, <<"signup">>, <<"reset-password">>, <<"verify-email">>,
   <<"api", "auth">>, <<"_next">>, <<"favicon.ico">>, <<"manifest.json">>,
   <<"sw.js">>, <<"icons">>, <<"offline.html">>}

AUTH_PATHS == {<<"login">>, <<"signup">>}

ALLOWED_ROLES == {"learner", "team_lead", "manager", "company_admin"}

\* pathname === path || pathname.startsWith(`${path}/`)
UnderPath(pathname, path) ==
  Len(path) <= Len(pathname) /\ SubSeq(pathname, 1, Len(path)) = path

isPublicPath(pathname) == \E path \in PUBLIC_PATHS : UnderPath(pathname, path)

isAuthPath(pathname) == \E path \in AUTH_PATHS : UnderPath(pathname, path)

\* Only the middleware with the demo mode has this test.
isCompanySlugPath(pathname) ==
  LET knownRoutes == {"login", "signup", "api", "_next", "dashboard", "courses",
                      "profile", "settings"}
  IN IF Len(pathname) = 0 THEN FALSE ELSE pathname[1] \notin knownRoutes

Pathnames ==
  {<<>>, <<"login">>, <<"login", "sso">>, <<"api", "auth", "callback">>,
   <<"api", "progress", "lesson">>, <<"dashboard">>, <<"courses", "az-104">>,
   <<"learnova", "az-104">>, <<"pwc">>, <<"settings">>}

\* The users row of the session's user: missing, or with these columns.
UserProfiles ==
  {None} \cup {<<p>> : p \in [is_active : BOOLEAN, status : {"active", "suspended"},
                              role : {"learner", "company_admin", "trainer"}]}

\* A request as the middleware sees it: the path, whether getSession gave a
\* session without error, the profile, whether Supabase is configured, and
\* which of the two middleware files is deployed.
MiddlewareRequests ==
  {<<r>> : r \in [pathname : Pathnames, session : BOOLEAN, profile : UserProfiles,
                  configured : BOOLEAN, demoMode : BOOLEAN]}

InitMiddleware ==
  /\ PagesIdle
  /\ question = <<>> /\ submitted = <<>> /\ graded = None
  /\ quizRow = None /\ enrollment = None
  /\ quizAttempts = 0 /\ requests = <<>>
  /\ lessonRows = <<>> /\ enrollmentData = None /\ ExtraIdle
  /\ reqBody \in {r \in MiddlewareRequests : r[1].demoMode \/ r[1].configured}
  /\ response = None

PassThrough == [kind |-> "next", to |-> "", signedOut |-> FALSE]

RedirectTo(path, signedOut) ==
  [kind |-> "redirect", to |-> path, signedOut |-> signedOut]

\* middleware(request)
MiddlewareResponse(req) ==
  LET HOME_PATH == IF req.demoMode THEN "/" ELSE "/dashboard"
      profileOk == /\ req.profile # None /\ req.profile[1].is_active
                   /\ req.profile[1].status = "active"
  IN IF req.demoMode /\ ~req.configured THEN PassThrough
     ELSE IF isPublicPath(req.pathname) THEN PassThrough
     ELSE IF req.demoMode /\ isCompanySlugPath(req.pathname) THEN PassThrough
     ELSE IF ~req.session
          THEN IF isAuthPath(req.pathname) THEN PassThrough
               ELSE RedirectTo("/login", FALSE)
     ELSE IF isAuthPath(req.pathname) THEN RedirectTo(HOME_PATH, FALSE)
     ELSE IF ~profileOk THEN RedirectTo("/login", TRUE)
     ELSE IF req.profile[1].role \notin ALLOWED_ROLES THEN RedirectTo("/login", TRUE)
     ELSE PassThrough

Middleware ==
  /\ response = None /\ "pathname" \in DOMAIN reqBody[1]
  /\ response' = <<MiddlewareResponse(reqBody[1])>>
  /\ UNCHANGED <<pageVars, question, submitted, graded, quizRow, reqBody,
                 enrollment, quizAttempts, requests, lessonRows, enrollmentData,
                 extraVars>>

SpecMiddleware == InitMiddleware /\ [][Middleware]_vars

\* ============================================================== claims
PrevBelowThreshold(i) ==
  modules[i - 1].progress < UnlockThreshold /\ modules[i - 1].quiz.status # "passed"

\* C1 - No premature unlock: whatever the learner has done, a module whose
\* predecessor has progress below 70 and a quiz that is not passed is locked.
C1_NoPrematureUnlock ==
  \A i \in DOMAIN modules :
    (i > 1 /\ PrevBelowThreshold(i)) => modules[i].status = "locked"

\* A learner has worked in module 1 without reaching 70%: module 2 is held back.
C1_Witness ==
  /\ Len(modules) > 1 /\ events > 0
  /\ modules[1].progress > 0 /\ PrevBelowThreshold(2)
  /\ modules[2].status = "locked"

\* C2 - Unlock is not missed: once the previous module has progress of 70 or
\* more, or a passed quiz, the next module is no longer locked.
C2_UnlockNotMissed ==
  \A i \in DOMAIN modules :
    (i > 1 /\ (modules[i - 1].progress >= UnlockThreshold
               \/ modules[i - 1].quiz.status = "passed"))
      => modules[i].status # "locked"

AllLessonsCompleted(m) ==
  \A k \in DOMAIN modules[m].lessons : modules[m].lessons[k].status = "completed"

\* C3 - Quiz gating: the quiz of a module with a lesson that is not completed
\* is locked.
C3_QuizGating ==
  \A m \in DOMAIN modules :
    ~AllLessonsCompleted(m) => modules[m].quiz.status = "locked"

\* One quiz has been taken after its lessons were completed while another
\* module still has open lessons and a locked quiz.
C3_Witness ==
  \E m, n \in DOMAIN modules :
    /\ AllLessonsCompleted(m) /\ modules[m].quiz.status \in {"passed", "failed"}
    /\ ~AllLessonsCompleted(n) /\ modules[n].quiz.status = "locked"
    /\ \E k \in DOMAIN modules[n].lessons : modules[n].lessons[k].status # "locked"

\* Math.round of the mean of the lessons' progress
MeanLessonProgress(lessons) ==
  Round(SumSeq(LessonProgresses(lessons)), Den * Len(lessons))

\* C5 - After every learner event each module's progress is the mean of its
\* lessons' progress, rounded to the nearest integer.
C5_ModuleProgressIsMean ==
  \A m \in DOMAIN modules :
    Len(modules[m].lessons) > 0
      => modules[m].progress = MeanLessonProgress(modules[m].lessons)

\* C6 - lessonsCompleted is the number of completed lessons of all modules.
C6_LessonsCompletedIsCount ==
  progress.lessonsCompleted = TotalCompleted(modules)

IsPercent(x) == x \in 0..100

\* a lesson progress v (v / Den percent) is a whole percentage in 0..100
IsWholePercent(v) == v % Den = 0 /\ IsPercent(v \div Den)

\* C7 - Every percentage held in state is an integer in 0..100.
C7_PercentagesAreIntegers ==
  /\ \A m \in DOMAIN modules :
       /\ IsPercent(modules[m].progress)
       /\ \A k \in DOMAIN modules[m].lessons :
            IsWholePercent(modules[m].lessons[k].progress)
  /\ IsPercent(progress.overallProgress)
  /\ IsPercent(progress.averageScore)


IsFreshState(mods) ==
  \A m \in DOMAIN mods :
    /\ mods[m].status = IF m = 1 THEN "in_progress" ELSE "locked"
    /\ \A k \in DOMAIN mods[m].lessons :
         mods[m].lessons[k].status = IF m = 1 THEN "not_started" ELSE "locked"
    /\ mods[m].quiz.status = "locked"

\* The last loadCourse found no snapshot, or one of another module count.
NoUsableSnapshot == loadedFrom = None \/ Len(loadedFrom[1]) # Len(content)

\* C4 - Fresh initial state: a course loaded without a usable snapshot (none
\* saved, or one of another module count) has module 1 in progress with its
\* lessons not started, every other module and its lessons locked, and
\* every quiz locked.
C4_FreshInitialState ==
  (reloads > 0 /\ NoUsableSnapshot) => IsFreshState(modules)

\* A snapshot of another module count was found and a course of two or more
\* modules with lessons, served with statuses of its own, was loaded.
C4_Witness ==
  /\ reloads > 0 /\ loadedFrom # None /\ NoUsableSnapshot
  /\ Len(modules) > 1 /\ Len(modules[1].lessons) > 0 /\ Len(modules[2].lessons) > 0
  /\ content[1].status = "completed" /\ content[2].quiz.status = "passed"

SameSet(xs, ys) == SeqToSet(xs) = SeqToSet(ys)

\* C8 - Quiz grading is exact-set matching: a question is graded correct
\* exactly when the submitted options, as a set, are the set of correct
\* options.
C8_ExactSetMatching ==
  graded # None =>
    /\ ~SameSet(submitted, question) => ~graded[1].page /\ ~graded[1].api
    /\ (SameSet(submitted, question) /\ Len(submitted) = Len(question)) =>
         graded[1].page /\ graded[1].api

\* C9 - The score returned by the quiz API is round(100 * correctCount /
\* totalQuestions) over the questions of the quiz; with no questions the
\* score is 0 and passed is false.
C9_ScoreOverAllQuestions ==
  (response # None /\ response[1].status = 200) =>
    LET r == response[1]
    IN IF r.totalQuestions = 0
       THEN r.score.num = 0 /\ ~r.passed
       ELSE r.score.num = Round(100 * r.correctAnswers, r.totalQuestions) * r.score.den

BestScores(mods) == [m \in DOMAIN mods |-> mods[m].quiz.bestScore]

NeverLower(old, new) ==
  \A m \in DOMAIN old \cap DOMAIN new : new[m] >= old[m]

\* A step of handleQuizSubmit leaves the high-water mark of the quiz.
SubmissionKeepsMax ==
  currentQuiz # 0 => \A answers \in [QuizQuestions -> ModalAnswers] :
    QuizSubmit(answers) =>
      modules'[currentQuiz].quiz.bestScore =
        Max(modules[currentQuiz].quiz.bestScore, QuizModalScore(answers))

\* A load that finds no snapshot of the module count of the fresh content.
DiscardingLoad ==
  /\ reloads' # reloads
  /\ storage = None \/ Len(storage[1].modules) # Len(content')

\* C10 - bestScore of a quiz never decreases, over quiz attempts and over
\* snapshot reconciliations, and after a submission it is the maximum of the
\* previous bestScore and the submitted score.
C10_BestScoreNeverDecreases ==
  [][NeverLower(BestScores(modules), BestScores(modules')) /\ SubmissionKeepsMax]_vars

\* C10 as amended - the same, except over a reconciliation that discards
\* the snapshot because its module count differs from the fresh content's.
C10_BestScoreKeptUnlessDiscarded ==
  [][/\ ~DiscardingLoad => NeverLower(BestScores(modules), BestScores(modules'))
     /\ SubmissionKeepsMax]_vars

\* A quiz passed with 100 and then failed keeps bestScore 100, also through a
\* later visit that merged the snapshot.
C10_Witness ==
  /\ reloads > 0 /\ loadedFrom # None /\ ~NoUsableSnapshot
  /\ \E m \in DOMAIN modules :
       modules[m].quiz.status = "failed" /\ modules[m].quiz.bestScore = 100

\* C11 - With max_attempts configured, the attempts recorded for one
\* enrollment and quiz never exceed it, also when submissions are processed
\* concurrently.
C11_AttemptsWithinLimit ==
  (requests # <<>> /\ quizRow[1].max_attempts # 0) =>
    quizAttempts <= quizRow[1].max_attempts

NotOwner == enrollment # None /\ enrollment[1] # reqBody[1].user

\* C12 - A quiz submission, lesson-progress update or SCORM update for an
\* enrollment of another user is answered Forbidden and writes nothing: no
\* attempt, no lesson_progress row, no enrollment update.
C12_ForbiddenWritesNothing ==
  [][NotOwner => /\ response' # None /\ response'[1].status = 403
                 /\ UNCHANGED <<quizAttempts, lessonRows, enrollmentData>>]_vars

\* A request to mark a lesson of another user's enrollment completed has
\* been refused and the lesson has no row.
C12_Witness ==
  /\ NotOwner /\ IsLessonBody /\ reqBody[1].status = "completed"
  /\ response # None /\ response[1].status = 403
  /\ lessonRows[reqBody[1].lessonId] = None

\* C13 - For a learner whose allowedCourses is present and lacks the course
\* code of the page, the course is never fetched, reconciled or put into
\* page state.
C13_AllowListBeforeLoad ==
  (visit # None /\ ~hasAccess(visit[1])) =>
    reloads = 0 /\ content = <<>> /\ modules = <<>>

\* C14 - On practice-session completion the dashboard streak becomes the
\* previous streak + 1 when the score is >= 70 and 0 otherwise, and the XP
\* awarded is round(score / 4).
C14_StreakAndXp ==
  [][(practiceLog # None /\ practiceLog' # None
      /\ practiceLog'[1].sessions = practiceLog[1].sessions + 1) =>
        /\ qubitsDashboard'[1].streak =
             IF practiceLog'[1].score >= 70 THEN qubitsDashboard[1].streak + 1
             ELSE 0
        /\ xpEarned' = Round(practiceLog'[1].score, 4)]_vars

\* C15 - The dashboard's overallAccuracy does not drift: after any sequence
\* of practice sessions it is round(100 * C / A) for the true numbers C of
\* correct results and A of attempted questions.
C15_AccuracyNoDrift ==
  practiceLog # None =>
    qubitsDashboard[1].overallAccuracy =
      IF practiceLog[1].attempted = 0 THEN 0
      ELSE Round(100 * practiceLog[1].correct, practiceLog[1].attempted)

\* The results of a session that belong to module n, by the module the
\* question was taken from.
ResultsOfModule(results, n) ==
  {i \in DOMAIN results :
     \E j \in DOMAIN practiceQuestions :
        /\ practiceQuestions[j].id = results[i].questionId
        /\ practiceQuestions[j].module = n}

\* C16 - Every result of a practice session is counted in the counters of
\* exactly one Qubits module, the module of its question: a module's
\* attempted, correct and incorrect grow by its own results only.
C16_ResultsPartitioned ==
  [][(practiceLog # None /\ practiceLog' # None
      /\ practiceLog'[1].sessions = practiceLog[1].sessions + 1) =>
        \A n \in DOMAIN qubitsModules :
          LET mine == ResultsOfModule(practiceLog'[1].results, n)
              right == {i \in mine : practiceLog'[1].results[i].isCorrect}
          IN /\ qubitsModules'[n].attemptedQuestions =
                  qubitsModules[n].attemptedQuestions + Cardinality(mine)
             /\ qubitsModules'[n].correctAnswers =
                  qubitsModules[n].correctAnswers + Cardinality(right)
             /\ qubitsModules'[n].incorrectAnswers =
                  qubitsModules[n].incorrectAnswers
                    + Cardinality(mine) - Cardinality(right)]_vars

\* C17 - After practice sessions of e1..en seconds the dashboard timeSpent
\* says the total e1 + ... + en on top of what it said before, to the
\* minute.
C17_TimeSpentAdditive ==
  practiceLog # None =>
    LET said == SecondsOf(qubitsDashboard[1].timeSpent)
        total == practiceLog[1].seconds
    IN said - total < 60 /\ total - said < 60

\* C18 - A course loaded without a snapshot, or with a snapshot of another
\* module count, starts in the all-fresh state: the statuses of a fresh
\* start, and every progress field as the content source served it, none
\* from the snapshot.
C18_DiscardedSnapshotLeavesNothing ==
  (reloads > 0 /\ NoUsableSnapshot) =>
    /\ IsFreshState(modules)
    /\ progress = ApiLearnerProgress(content)
    /\ \A m \in DOMAIN modules :
         /\ modules[m].progress = content[m].progress
         /\ modules[m].quiz.bestScore = content[m].quiz.bestScore
         /\ \A k \in DOMAIN modules[m].lessons :
              /\ modules[m].lessons[k].progress = content[m].lessons[k].progress
              /\ modules[m].lessons[k].lastPosition =
                   content[m].lessons[k].lastPosition

\* The snapshot of a finished course of more modules than the course now
\* served was found, and nothing of it is in the state.
C18_Witness ==
  /\ reloads > 0 /\ loadedFrom # None
  /\ Len(loadedFrom[1]) > Len(content) /\ Len(content) > 0
  /\ \E m \in DOMAIN modules : Len(modules[m].lessons) > 0
  /\ progress.lessonsCompleted = 0

\* The last loadCourse found a snapshot of the module count of the fresh
\* content in which some module has another number of lessons.
LessonCountMismatch ==
  /\ loadedFrom # None /\ Len(loadedFrom[1]) = Len(content)
  /\ \E m \in DOMAIN content : loadedFrom[1][m] # Len(content[m].lessons)

\* C19 - A snapshot with the module count of the fresh content but another
\* number of lessons in some module is discarded as well: the course starts
\* in the all-fresh state, not in a partial merge.
C19_LessonMismatchFallsBack ==
  (reloads > 0 /\ LessonCountMismatch) =>
    IsFreshState(modules) /\ progress = ApiLearnerProgress(content)

\* C20 - A lesson's lastPosition never regresses: no step, a video-progress
\* event after a seek backwards included, leaves a lesson with a lower
\* lastPosition than it had.
C20_LastPositionNeverRegresses ==
  [][\A m \in DOMAIN modules \cap DOMAIN modules' :
       \A k \in DOMAIN modules[m].lessons \cap DOMAIN modules'[m].lessons :
         modules'[m].lessons[k].lastPosition >= modules[m].lessons[k].lastPosition]_vars

\* C21 - Once a reset has completed, with every save it triggers, no
\* persisted snapshot exists.
C21_ResetDeletesSnapshot ==
  [][(practiceLog # None /\ practiceLog' # None
      /\ practiceLog'[1].resets = practiceLog[1].resets + 1) =>
        storage' = None]_vars

\* C22 - A failed save is never dropped: a save of video progress, lesson
\* completion or a quiz attempt that failed is in the end attempted again.
C22_FailedSaveRetried ==
  \A d \in SaveItems :
    (saves # <<>> /\ saves[d].status = "failed")
      ~> (saves[d].status \in {"inflight", "saved"})

\* C23 - When concurrent lesson-progress updates for one enrollment have all
\* finished, the stored enrollment progress is round(100 * completed /
\* total_lessons) for the final set of completed lessons.
C23_NoStaleEnrollmentProgress ==
  (/\ requests # <<>>
   /\ \A r \in DOMAIN requests :
        "body" \in DOMAIN requests[r] /\ requests[r].pc = "done"
   /\ \E r \in DOMAIN requests : requests[r].status = 200) =>
     enrollmentData[1].progress =
       Round(100 * CompletedLessons(lessonRows), NumApiLessons)

AllCompleted(mods) ==
  \A m \in DOMAIN mods : mods[m].status = "completed"

\* C24 - Snapshots are keyed by (user, course): the snapshot of a learner
\* who has finished the course is never overwritten by state that does not
\* come from it, and the course they load is reconciled with it, whether
\* the identity provider answers before or after the load starts.
C24_SnapshotKeyedByUser ==
  authUser # None =>
    /\ storage # None /\ AllCompleted(storage[1].modules)
    /\ reloads > 0 => AllCompleted(modules)

\* C25 - A module without lessons counts as having all lessons completed:
\* once it is unlocked its quiz is not locked.
C25_EmptyModuleQuizOpen ==
  \A m \in DOMAIN modules :
    (Len(modules[m].lessons) = 0 /\ modules[m].status # "locked")
      => modules[m].quiz.status # "locked"

\* C26 - With the auth backend configured, a request to a path outside
\* PUBLIC_PATHS is passed through only with a session, an active profile and
\* an allowed role; every other such request is redirected to /login.
C26_ProtectedRoutesNeedSession ==
  (/\ reqBody # None /\ "pathname" \in DOMAIN reqBody[1] /\ response # None
   /\ reqBody[1].configured /\ ~isPublicPath(reqBody[1].pathname)) =>
     LET req == reqBody[1]
         allowed == /\ req.session /\ req.profile # None
                    /\ req.profile[1].is_active /\ req.profile[1].status = "active"
                    /\ req.profile[1].role \in ALLOWED_ROLES
     IN IF allowed THEN response[1].kind = "next"
        ELSE response[1].kind = "redirect" /\ response[1].to = "/login"

\* C27 - Unlock and completion are monotonic within a session: no learner
\* event locks a module, lesson or quiz that was not locked, and none takes
\* the status `completed` from a lesson.
C27_UnlockAndCompletionMonotonic ==
  [][\A m \in DOMAIN modules :
       /\ modules[m].status # "locked" => modules'[m].status # "locked"
       /\ modules[m].quiz.status # "locked" => modules'[m].quiz.status # "locked"
       /\ \A k \in DOMAIN modules[m].lessons :
            /\ modules[m].lessons[k].status # "locked"
                 => modules'[m].lessons[k].status # "locked"
            /\ modules[m].lessons[k].status = "completed"
                 => modules'[m].lessons[k].status = "completed"]_vars

\* A completed lesson is played again after the quiz of its module was
\* submitted and the next module was unlocked.
C27_Witness ==
  /\ playing # None /\ Len(modules) > 1
  /\ modules[playing[1]].lessons[playing[2]].status = "completed"
  /\ modules[playing[1]].lessons[playing[2]].lastPosition > 0
  /\ modules[1].quiz.status \in {"passed", "failed"}
  /\ modules[2].status # "locked"
  /\ events >= 3

\* The number of module quizzes whose status is `passed`
PassedQuizzes(mods) ==
  Cardinality({m \in DOMAIN mods : mods[m].quiz.status = "passed"})

\* C28 - From a fresh course, after any sequence of quiz submissions,
\* quizzesPassed is the number of module quizzes whose status is `passed`,
\* and so is at most the number of modules.
C28_QuizzesPassedCountsPassedQuizzes ==
  /\ progress.quizzesPassed = PassedQuizzes(modules)
  /\ progress.quizzesPassed <= Len(modules)

\* C29 - For every Qubits module, in every state reached from the zeroed
\* data by practice completions and resets, attemptedQuestions is
\* correctAnswers + incorrectAnswers and unattempted is
\* max(0, totalQuestions - attemptedQuestions).
C29_QubitsModuleCountsAgree ==
  \A n \in DOMAIN qubitsModules :
    /\ qubitsModules[n].attemptedQuestions
         = qubitsModules[n].correctAnswers + qubitsModules[n].incorrectAnswers
    /\ qubitsModules[n].unattempted
         = Max(0, qubitsModules[n].totalQuestions - qubitsModules[n].attemptedQuestions)

\* The session times of the accepted updates, one per request
AcceptedSessionTimes ==
  [r \in Requests |->
     IF requests[r].status = 200 /\ requests[r].body.sessionTime # Undefined
     THEN requests[r].body.sessionTime ELSE 0]

\* C30 - SCORM session time is never lost: when every request has been
\* answered, scorm_total_time is its value before the requests plus the
\* sessionTime of every accepted update, in whatever order they ran.
C30_SessionTimeNeverLost ==
  (\A r \in Requests : requests[r].pc = "done") =>
     enrollmentData[1].scorm_total_time = ScormTimeBefore + SumSeq(AcceptedSessionTimes)

====
